---- MODULE Spec2Model ----
(***************************************************************************)
(* JRiver Media Center integration for Home Assistant.                     *)
(*                                                                         *)
(* Part 1: MediaServerUpdateCoordinator (coordinator.py), the polling      *)
(*         cycle _async_update_data and the MediaServerData snapshot.      *)
(* Part 2: the command guard cmd (entity.py) and the command methods of    *)
(*         JRiverMediaPlayer (media_player.py) and JRiverRemote            *)
(*         (remote.py).                                                    *)
(***************************************************************************)
EXTENDS Integers, Sequences, FiniteSets, TLC

VARIABLES
    data,               \* coordinator.data: the current MediaServerData
    heap,               \* the dict objects that snapshots share by reference
    last_path_refresh,  \* coordinator._last_path_refresh
    media_server_info,  \* MediaServer.media_server_info, cached by alive()
    now,                \* dt_util.utcnow(), in seconds
    cycles,             \* number of refresh cycles run so far
    player,             \* the JRiverMediaPlayer entity listening to the coordinator
    config_entry,       \* the persisted options of the config entry
    browse,             \* the last browse_nodes call: its arguments and its result
    entry,              \* the loaded config entry: registry record, connection, listeners
    in_flight,          \* a refresh cycle has started and not yet returned
    last_cycle,         \* what the last _async_update_data did (calls, outcome)
    flow,               \* the config flow: the handler's fields and its last result
    validation,         \* the last validate_http call: its arguments and its outcome
    entity_call,        \* the entity command being executed, if any
    call_log            \* completed entity commands and what each one did

coordVars == <<data, heap, last_path_refresh, media_server_info, now, cycles, last_cycle>>
playerVars == <<player, config_entry>>
cmdVars == <<entity_call, call_log>>
browseVars == <<browse>>
entryVars == <<entry, in_flight>>
flowVars == <<flow, validation>>
vars == <<data, heap, last_path_refresh, media_server_info, now, cycles, player,
          config_entry, browse, entry, in_flight, last_cycle, flow, validation, entity_call, call_log>>

----------------------------------------------------------------------------
(* Bounds of the model *)

\* number of refresh cycles explored
MaxCycles == 2

\* number of refresh cycles explored where the path refresh is examined: a
\* first load, a refresh that falls due, and the cycle after it
MaxPathCycles == 3

\* Python's None / Optional[T]: None is <<>>, a value x is <<x>>
None == <<>>
Some(x) == <<x>>
IsNone(o) == o = <<>>
Val(o) == o[1]

\* dict.get(key, None)
DictGet(d, k) == IF k \in DOMAIN d THEN Some(d[k]) ELSE None

\* an empty dict
EmptyDict == [k \in {} |-> None]

\* d[k] = v for every k of upd (in-place update of a dict's contents)
DictUpdate(d, upd) ==
    [k \in (DOMAIN d) \cup (DOMAIN upd) |-> IF k \in DOMAIN upd THEN upd[k] ELSE d[k]]

----------------------------------------------------------------------------
(* What the media server can reply *)

ZoneNames == {"Player", "Kitchen"}

Zone(n, a) == [name |-> n, active |-> a]

\* hamcws.PlaybackInfo, the fields the coordinator reads
PlaybackInfo(file_key, state, position_ms) ==
    [file_key |-> file_key, state |-> state, position_ms |-> position_ms]

\* replies of get_playback_info for one zone: a track playing, the same track
\* at position 0, the same track paused at the same position, another track
PlaybackInfos ==
    { PlaybackInfo(101, "PLAYING", 1000),
      PlaybackInfo(101, "PLAYING", 0),
      PlaybackInfo(101, "PAUSED", 1000),
      PlaybackInfo(102, "PLAYING", 1000) }

\* replies of get_audio_path_direct / get_audio_path and of get_current_playlist
\* for one zone
FullRefreshReplies ==
    { [is_direct |-> TRUE, playlist |-> <<101>>],
      [is_direct |-> FALSE, playlist |-> <<101, 102>>] }

\* replies of alive(), get_zones() and get_view_mode() in one cycle: no zone,
\* one zone with none marked active (before and after a server upgrade), two
\* zones with the second one active
GatherReplies ==
    { [server_info |-> "32.0.6", zones |-> <<>>, view_mode |-> "NO_UI"],
      [server_info |-> "32.0.6", zones |-> <<Zone("Player", FALSE)>>,
       view_mode |-> "STANDARD"],
      [server_info |-> "32.1.0", zones |-> <<Zone("Player", FALSE)>>,
       view_mode |-> "STANDARD"],
      [server_info |-> "32.0.6",
       zones |-> <<Zone("Player", FALSE), Zone("Kitchen", TRUE)>>,
       view_mode |-> "STANDARD"] }

\* get_browse_rules, already converted by convert_browse_rules
BrowseRules == {<<"Audio,Artist">>}

\* the browse paths text of the config entry
ConfBrowsePaths == <<"Video,Movies">>

\* the hamcws client errors
ClientErrors ==
    {"CannotConnectError", "InvalidAuthError", "InvalidRequestError", "MediaServerError"}

ZoneNamesOf(zones) == {zones[i].name : i \in 1..Len(zones)}

----------------------------------------------------------------------------
(* MediaServerData (coordinator.py) *)

\* MediaServerData(): every field at its dataclass default. The two dicts that
\* later snapshots share are objects of the heap, named by reference.
IsDirectRef == "is_direct_by_zone@0"
PlaylistRef == "playlist_by_zone@0"

InitialData ==
    [ server_info |-> None,
      playback_info_by_zone |-> EmptyDict,
      is_direct_by_zone |-> IsDirectRef,
      position_updated_at_by_zone |-> EmptyDict,
      playlist_by_zone |-> PlaylistRef,
      zones |-> <<>>,
      view_mode |-> "UNKNOWN",
      browse_paths |-> None ]

\* MediaServerData(...) as built at the end of a cycle
MediaServerData(server_info, playback_info_by_zone, position_updated_at_by_zone, is_direct_by_zone, playlist_by_zone, zones, view_mode, browse_paths) ==
    [ server_info |-> Some(server_info),
      playback_info_by_zone |-> playback_info_by_zone,
      is_direct_by_zone |-> is_direct_by_zone,
      position_updated_at_by_zone |-> position_updated_at_by_zone,
      playlist_by_zone |-> playlist_by_zone,
      zones |-> zones,
      view_mode |-> view_mode,
      browse_paths |-> Some(browse_paths) ]

\* the indexes of the zones marked active, in list order
ActiveZones(zones) == {i \in 1..Len(zones) : zones[i].active}

\* next((z for z in zones if z.active), None)
NextActiveZone(zones) ==
    IF ActiveZones(zones) = {} THEN None
    ELSE Some(zones[CHOOSE i \in ActiveZones(zones) : \A j \in ActiveZones(zones) : i <= j])

\* MediaServerData.get_active_zone_name
GetActiveZoneName(d) ==
    IF IsNone(NextActiveZone(d.zones)) THEN None
    ELSE Some(Val(NextActiveZone(d.zones)).name)

\* _get_val_for_zone without the fall back to the first zone
GetValForZone_NoFallback(d, vals, target_zone) ==
    IF ~IsNone(target_zone) /\ Val(target_zone) # ""
    THEN DictGet(vals, Val(target_zone))
    ELSE IF ~IsNone(NextActiveZone(d.zones))
         THEN DictGet(vals, Val(NextActiveZone(d.zones)).name)
         ELSE None

\* MediaServerData._get_val_for_zone; target_zone is None or a name, and an
\* empty name is as falsy as None
GetValForZone(d, vals, target_zone) ==
    IF ~IsNone(target_zone) /\ Val(target_zone) # ""
    THEN DictGet(vals, Val(target_zone))
    ELSE LET next_active == NextActiveZone(d.zones)
             active_zone == IF IsNone(next_active) /\ d.zones # <<>>
                            THEN Some(d.zones[1])
                            ELSE next_active
         IN  IF ~IsNone(active_zone)
             THEN DictGet(vals, Val(active_zone).name)
             ELSE None

\* the per-zone accessors of a snapshot d whose shared dicts live in heap h
GetPlaybackInfo(d, h, target_zone) == GetValForZone(d, d.playback_info_by_zone, target_zone)
GetAudioPathIsDirect(d, h, target_zone) == GetValForZone(d, h[d.is_direct_by_zone], target_zone)
GetPlaylist(d, h, target_zone) == GetValForZone(d, h[d.playlist_by_zone], target_zone)
GetPositionUpdatedAt(d, h, target_zone) == GetValForZone(d, d.position_updated_at_by_zone, target_zone)

----------------------------------------------------------------------------
(* _can_refresh_paths (const.py) *)

\* AwesomeVersion(v): the numeric sections of the version strings in use
VersionSections(v) ==
    CASE v = "9.0.0"   -> <<9, 0, 0>>
      [] v = "31.0.10" -> <<31, 0, 10>>
      [] v = "32.0.5"  -> <<32, 0, 5>>
      [] v = "32.0.6"  -> <<32, 0, 6>>
      [] v = "32.0.10" -> <<32, 0, 10>>
      [] v = "32.1.0"  -> <<32, 1, 0>>
      [] v = "33.0.0"  -> <<33, 0, 0>>
      [] OTHER         -> <<0>>

Section(s, i) == IF i <= Len(s) THEN s[i] ELSE 0

\* a comparison of the first section only
VersionGE_FirstSection(a, b) == Section(a, 1) >= Section(b, 1)

\* a >= b, section by section, numerically
VersionGE(a, b) ==
    LET n == IF Len(a) > Len(b) THEN Len(a) ELSE Len(b)
        differ == {i \in 1..n : Section(a, i) # Section(b, i)}
    IN  IF differ = {} THEN TRUE
        ELSE LET i == CHOOSE j \in differ : \A k \in differ : j <= k
             IN  Section(a, i) > Section(b, i)

\* info is MediaServer.media_server_info: None or the version string
CanRefreshPaths(info) ==
    /\ ~IsNone(info)
    /\ Val(info) # ""
    /\ Val(info) # "Unknown"
    /\ VersionGE(VersionSections(Val(info)), VersionSections("32.0.6"))

----------------------------------------------------------------------------
(* MediaServerUpdateCoordinator._async_update_data (coordinator.py) *)

PathRefreshSeconds == 900

\* a fetch of a task group either returned a value or raised a client error
Returned(v) == [ok |-> TRUE, value |-> v]
Raised(e) == [ok |-> FALSE, error |-> e]

PlaybackInfoReplies == {Returned(i) : i \in PlaybackInfos} \cup {Raised(e) : e \in ClientErrors}

\* TaskGroup as asyncio.gather(..., return_exceptions=True) with the failed
\* tasks skipped would behave
TaskGroup_SkipFailed(replies) ==
    Returned([k \in {j \in DOMAIN replies : replies[j].ok} |-> replies[k].value])

\* async with asyncio.TaskGroup(): when a task fails the group raises an
\* ExceptionGroup holding the task errors, otherwise every task has a result.
TaskGroup(replies) ==
    IF \E k \in DOMAIN replies : ~replies[k].ok
    THEN Raised("ExceptionGroup")
    ELSE Returned([k \in DOMAIN replies |-> replies[k].value])

\* the except clauses of _async_update_data: what leaves for a raised exception
ExceptClause(exc) ==
    IF exc = "InvalidAuthError" THEN "ConfigEntryAuthFailed"
    ELSE IF exc \in {"CannotConnectError", "MediaServerError", "InvalidRequestError"}
         THEN "UpdateFailed"
         ELSE exc

\* position_updated_at_by_zone[zone_name] = pos_updated_at, if playback_info.position_ms
PositionUpdatedAt(playback_info_by_zone, pos_updated_at) ==
    [z \in {n \in DOMAIN playback_info_by_zone : playback_info_by_zone[n].position_ms # 0}
        |-> pos_updated_at]

\* ZonesToFullyRefresh without the playback state comparison
ZonesToFullyRefresh_NoState(last_info_by_zone, playback_info_by_zone) ==
    {z \in DOMAIN playback_info_by_zone :
        \/ z \notin DOMAIN last_info_by_zone
        \/ last_info_by_zone[z].file_key # playback_info_by_zone[z].file_key}

\* zones_to_fully_refresh: not last_info, or file_key changed, or state changed
ZonesToFullyRefresh(last_info_by_zone, playback_info_by_zone) ==
    {z \in DOMAIN playback_info_by_zone :
        \/ z \notin DOMAIN last_info_by_zone
        \/ last_info_by_zone[z].file_key # playback_info_by_zone[z].file_key
        \/ last_info_by_zone[z].state # playback_info_by_zone[z].state}

\* MustGetPaths refreshing only when more than 900 seconds have passed
MustGetPaths_After(current_version, utcnow) ==
    \/ IsNone(data.browse_paths)
    \/ IsNone(last_path_refresh)
    \/ IsNone(data.server_info)
    \/ utcnow - Val(last_path_refresh) > PathRefreshSeconds
    \/ Val(data.server_info) # current_version

\* whether _refresh_paths_if_necessary calls _get_paths
MustGetPaths(current_version, utcnow) ==
    \/ IsNone(data.browse_paths)
    \/ IsNone(last_path_refresh)
    \/ IsNone(data.server_info)
    \/ utcnow - Val(last_path_refresh) >= PathRefreshSeconds
    \/ Val(data.server_info) # current_version

\* the record of one cycle: its outcome and the client calls it issued
CycleRecord(outcome, stage, cause, leaving, zones, infos, playback_failed, refreshed, rules) ==
    [ outcome |-> outcome,          \* "published" or "failed"
      stage |-> stage,              \* where it failed
      cause |-> cause,              \* the client error raised
      leaving |-> leaving,          \* the exception leaving _async_update_data
      playback_zones |-> zones,     \* zones get_playback_info was called for
      playback_info |-> infos,      \* the playback infos the task group returned
      playback_failed |-> playback_failed, \* zones whose get_playback_info raised
      audio_path |-> refreshed,     \* zones get_audio_path_direct was called for
      playlist |-> refreshed,       \* zones get_current_playlist was called for
      browse_rules |-> rules ]      \* whether get_browse_rules was called

NoCycle == CycleRecord("none", "", "", "", {}, None, {}, {}, FALSE)

\* asyncio.gather(alive(), get_zones(), get_view_mode()) raises err; alive()
\* may have returned before, and then the client has cached its reply.
GatherFails(gathers) ==
    \E err \in ClientErrors,
       info \in {media_server_info} \cup {Some(g.server_info) : g \in gathers} :
        /\ media_server_info' = info
        /\ last_cycle' = CycleRecord("failed", "gather", err, ExceptClause(err),
                                     {}, None, {}, {}, FALSE)
        /\ UNCHANGED <<data, heap, last_path_refresh>>

\* the cycle from the playback-info task group on
AfterGather(server_info, zones, view_mode, rulesets, utcnow) ==
    \E replies \in [ZoneNamesOf(zones) -> PlaybackInfoReplies] :
        LET group == TaskGroup(replies)
            asked == DOMAIN replies
            failed == {z \in DOMAIN replies : ~replies[z].ok}
        IN
        IF ~group.ok
        THEN /\ last_cycle' = CycleRecord("failed", "playback_info",
                                  replies[CHOOSE z \in failed : TRUE].error,
                                  ExceptClause(group.error), asked, None, failed,
                                  {}, FALSE)
             /\ UNCHANGED <<data, heap, last_path_refresh>>
        ELSE
        LET playback_info_by_zone == group.value
            position_updated_at_by_zone == PositionUpdatedAt(playback_info_by_zone, utcnow)
            zones_to_fully_refresh ==
                ZonesToFullyRefresh(data.playback_info_by_zone, playback_info_by_zone)
            is_direct_by_zone == data.is_direct_by_zone
            playlist_by_zone == data.playlist_by_zone
            Published(browse_paths, rules_called) ==
                /\ data' = MediaServerData(server_info, playback_info_by_zone,
                                position_updated_at_by_zone, is_direct_by_zone,
                                playlist_by_zone, zones, view_mode, browse_paths)
                /\ last_cycle' = CycleRecord("published", "", "", "", asked,
                                Some(playback_info_by_zone), failed,
                                zones_to_fully_refresh, rules_called)
        IN
        \/ \* a task of the audio-path / playlist group raises: the loops that
           \* write the results into the two dicts are not reached
           /\ \E err \in ClientErrors, bad \in zones_to_fully_refresh :
                LET full == TaskGroup([z \in zones_to_fully_refresh |->
                                IF z = bad THEN Raised(err)
                                ELSE Returned(CHOOSE r \in FullRefreshReplies : TRUE)])
                IN  /\ ~full.ok
                    /\ last_cycle' = CycleRecord("failed", "full_refresh", err,
                                  ExceptClause(full.error), asked,
                                  Some(playback_info_by_zone), failed,
                                  zones_to_fully_refresh, FALSE)
           /\ UNCHANGED <<data, heap, last_path_refresh>>
        \/ \* the group returns: the results are written into the two dicts
           \E full \in [zones_to_fully_refresh -> FullRefreshReplies] :
             /\ heap' = [heap EXCEPT
                    ![is_direct_by_zone] =
                        DictUpdate(@, [z \in DOMAIN full |-> full[z].is_direct]),
                    ![playlist_by_zone] =
                        DictUpdate(@, [z \in DOMAIN full |-> full[z].playlist])]
             /\ IF ~CanRefreshPaths(media_server_info')
                THEN \* _refresh_paths_if_necessary returns []
                     /\ Published(<<>>, FALSE)
                     /\ UNCHANGED last_path_refresh
                ELSE IF ~MustGetPaths(server_info, utcnow)
                THEN \* the cached paths are returned
                     /\ Published(Val(data.browse_paths), FALSE)
                     /\ UNCHANGED last_path_refresh
                ELSE \* _get_paths: finally sets _last_path_refresh
                     /\ last_path_refresh' = Some(utcnow)
                     /\ \/ \E err \in ClientErrors :
                             /\ last_cycle' = CycleRecord("failed", "browse_rules", err,
                                    ExceptClause(err), asked,
                                    Some(playback_info_by_zone), failed,
                                    zones_to_fully_refresh, TRUE)
                             /\ UNCHANGED data
                        \/ \E browse_rules \in rulesets :
                             Published(Append(browse_rules, "Playlists"), TRUE)

\* one refresh cycle, from the call by the update coordinator to its return;
\* the cycle starts some seconds of elapsed after the previous one; at most
\* most cycles are explored
AsyncUpdateData(most, gathers, rulesets, elapsed) ==
    /\ cycles < most
    /\ cycles' = cycles + 1
    /\ \E seconds \in elapsed : now' = now + seconds
    /\ UNCHANGED <<cmdVars, browseVars, flowVars>>
    /\ \/ GatherFails(gathers)
       \/ \E g \in gathers :
            /\ media_server_info' = Some(g.server_info)
            /\ AfterGather(g.server_info, g.zones, g.view_mode, rulesets, now')

----------------------------------------------------------------------------
(* JRiverMediaPlayer (media_player.py): what it keeps of the coordinator data *)

\* hamcws.parse_browse_paths_from_text: one BrowsePath per line of text, the
\* names before the bar and the tags after it, both lists comma separated
BrowsePath(names, tags) ==
    [names |-> names, tags |-> tags, media_types |-> <<>>, media_sub_types |-> <<>>]

ParseBrowsePath(text) ==
    CASE text = "Audio,Artist|Album Artist (auto),Album"
            -> BrowsePath(<<"Audio", "Artist">>, <<"Album Artist (auto)", "Album">>)
      [] text = "Audio,Artist" -> BrowsePath(<<"Audio", "Artist">>, <<>>)
      [] text = "Video,Movies" -> BrowsePath(<<"Video", "Movies">>, <<>>)
      [] OTHER -> BrowsePath(<<text>>, <<>>)

ParseBrowsePathsFromText(lines) == [i \in 1..Len(lines) |-> ParseBrowsePath(lines[i])]

\* JRiverMediaPlayer.__init__: browse_paths is the persisted configuration text
JRiverMediaPlayer(browse_paths, zone_name) ==
    [ playback_info |-> None,
      position_updated_at |-> None,
      conf_browse_paths |-> IF browse_paths # <<>>
                            THEN Some(ParseBrowsePathsFromText(browse_paths))
                            ELSE None,
      browse_paths |-> None,
      target_zone |-> zone_name ]

\* a handler that always takes the browse paths of the coordinator
HandleCoordinatorUpdate_DataPaths(p, d, h, info) ==
    [p EXCEPT !.position_updated_at = GetPositionUpdatedAt(d, h, p.target_zone),
              !.playback_info = GetPlaybackInfo(d, h, p.target_zone),
              !.browse_paths = d.browse_paths]

\* JRiverMediaPlayer._handle_coordinator_update, on snapshot d with heap h while
\* the client's cached server info is info
HandleCoordinatorUpdate(p, d, h, info) ==
    [p EXCEPT !.position_updated_at = GetPositionUpdatedAt(d, h, p.target_zone),
              !.playback_info = GetPlaybackInfo(d, h, p.target_zone),
              !.browse_paths = IF CanRefreshPaths(info)
                               THEN d.browse_paths
                               ELSE p.conf_browse_paths]

\* the coordinator calls its listeners after a cycle, except after a failed
\* cycle that follows a failed cycle
ListenersCalled == last_cycle'.outcome = "published" \/ last_cycle.outcome # "failed"

UpdateListeners ==
    /\ UNCHANGED config_entry
    /\ player' = IF ListenersCalled
                 THEN HandleCoordinatorUpdate(player, data', heap', media_server_info')
                 ELSE player

\* a scheduled refresh of the coordinator returns: the cycle, then the listeners
AsyncRefresh(most, gathers, rulesets, elapsed) ==
    /\ AsyncUpdateData(most, gathers, rulesets, elapsed)
    /\ UpdateListeners
    /\ in_flight' = FALSE
    /\ UNCHANGED entry

----------------------------------------------------------------------------
(* The command guard cmd (entity.py) and the entity command methods *)

Command(entity, method, guarded) ==
    [entity |-> entity, method |-> method, guarded |-> guarded]

\* JRiverMediaPlayer: the command methods and whether each carries @cmd
MediaPlayerCommands ==
    { Command("media_player", "async_volume_up", TRUE),
      Command("media_player", "async_volume_down", TRUE),
      Command("media_player", "async_set_volume_level", TRUE),
      Command("media_player", "async_mute_volume", TRUE),
      Command("media_player", "async_media_play_pause", TRUE),
      Command("media_player", "async_media_play", TRUE),
      Command("media_player", "async_media_pause", TRUE),
      Command("media_player", "async_media_stop", TRUE),
      Command("media_player", "async_media_next_track", TRUE),
      Command("media_player", "async_media_previous_track", TRUE),
      Command("media_player", "async_media_seek", TRUE),
      Command("media_player", "async_play_media", TRUE),
      Command("media_player", "async_set_shuffle", TRUE),
      Command("media_player", "async_clear_playlist", TRUE),
      Command("media_player", "async_add_media_to_playlist", TRUE),
      Command("media_player", "async_seek_relative", TRUE),
      Command("media_player", "async_adjust_volume", TRUE),
      Command("media_player", "async_turn_on", FALSE),
      Command("media_player", "async_turn_off", FALSE) }

\* JRiverRemote: the command methods and whether each carries @cmd
RemoteCommands ==
    { Command("remote", "async_turn_on", TRUE),
      Command("remote", "async_turn_off", TRUE),
      Command("remote", "async_send_command", TRUE),
      Command("remote", "async_activate_zone", TRUE),
      Command("remote", "async_send_mcc", TRUE) }

Commands == MediaPlayerCommands \cup RemoteCommands

\* an except clause that catches the authentication error only
Caught_AuthOnly(exc) == exc \in {"homeassistant.auth.InvalidAuthError"}

\* except (CannotConnectError, InvalidAuthError): the first class is imported
\* from hamcws, the second from homeassistant.auth, which is another class
\* than the InvalidAuthError the hamcws client raises.
Caught(exc) == exc \in {"CannotConnectError", "homeassistant.auth.InvalidAuthError"}

\* a call of an entity command method in progress
Call(command, pc, raised, trace) ==
    [command |-> command, pc |-> pc, raised |-> raised, trace |-> trace]

\* the service layer calls a command method of an entity
CallCommand ==
    /\ IsNone(entity_call)
    /\ \E c \in Commands : entity_call' = Some(Call(c, "func", None, <<>>))
    /\ UNCHANGED call_log
    /\ UNCHANGED <<coordVars, playerVars, browseVars, entryVars, flowVars>>

\* the call has ended: the exception that escapes to the caller, if any
Return(call, escaped) ==
    /\ call_log' = Some([command |-> call.command, raised |-> call.raised,
                         trace |-> call.trace, escaped |-> escaped])
    /\ entity_call' = None

\* await func(obj, *args, **kwargs): the media server calls of the method return
FuncReturns ==
    /\ ~IsNone(entity_call)
    /\ Val(entity_call).pc = "func"
    /\ LET call == Call(Val(entity_call).command, "refresh", None,
                        Append(Val(entity_call).trace, "func returned"))
       IN  IF call.command.guarded
           THEN entity_call' = Some(call) /\ UNCHANGED call_log
           ELSE Return(call, None)
    /\ UNCHANGED <<coordVars, playerVars, browseVars, entryVars, flowVars>>

\* await func(obj, *args, **kwargs): a media server call of the method raises
FuncRaises ==
    /\ ~IsNone(entity_call)
    /\ Val(entity_call).pc = "func"
    /\ \E exc \in ClientErrors :
         LET c == Val(entity_call).command
         IN  IF c.guarded /\ Caught(exc)
             THEN Return(Call(c, "done", Some(exc),
                              Append(Val(entity_call).trace, "_LOGGER.error")), None)
             ELSE Return(Call(c, "done", Some(exc), Val(entity_call).trace), Some(exc))
    /\ UNCHANGED <<coordVars, playerVars, browseVars, entryVars, flowVars>>

\* await obj.coordinator.async_request_refresh(), then the wrapper returns
RequestRefresh ==
    /\ ~IsNone(entity_call)
    /\ Val(entity_call).pc = "refresh"
    /\ Return(Call(Val(entity_call).command, "done", None,
                   Append(Val(entity_call).trace, "async_request_refresh")), None)
    /\ UNCHANGED <<coordVars, playerVars, browseVars, entryVars, flowVars>>

\* a media id as its segments between the "|" separators: "N|12|Audio" is
\* <<"N", "12", "Audio">>, "K|34" is <<"K", "34">>
HasPrefix(media_id, letter) == Len(media_id) >= 2 /\ media_id[1] = letter

\* media_source.is_media_source_id
IsMediaSourceId(media_id) == media_id = <<"media-source://media/a.mp3">>

\* str.lower() on the media types of the model
Lower(media_type) ==
    CASE media_type = "MUSIC" -> "music"
      [] media_type = "Playlist" -> "playlist"
      [] OTHER -> media_type

\* int(node_id)
IsInt(text) == text \in {"12", "34"}

\* the media types async_play_media hands to _play_jriver_item
LibraryMediaTypes ==
    {"artist", "album", "channel", "composer", "episode", "genre", "image",
     "movie", "music", "season", "track", "tvshow", "video"}

\* what a piece of a command method did: the media server calls it issued, the
\* wrapper's log and refresh calls, and the exception it raised, if any
Ran(calls, trace, raised) == [calls |-> calls, trace |-> trace, raised |-> raised]

\* one call of the media server client, which returns or raises its reply
ServerCall(name, arg, reply) ==
    Ran(<<[name |-> name, arg |-> arg]>>, <<>>,
        IF reply = "ok" THEN None ELSE Some(reply))

Raise(exc) == Ran(<<>>, <<>>, Some(exc))

\* first, and when it did not raise, then
AndThen(first, then) ==
    IF ~IsNone(first.raised) THEN first
    ELSE Ran(first.calls \o then.calls, first.trace \o then.trace, then.raised)

\* the wrapper of @cmd around a method that ran as func
Cmd(func) ==
    IF IsNone(func.raised)
    THEN Ran(func.calls, Append(func.trace, "async_request_refresh"), None)
    ELSE IF Caught(Val(func.raised))
    THEN Ran(func.calls, Append(func.trace, "_LOGGER.error"), None)
    ELSE func

\* JRiverMediaPlayer.async_clear_playlist, with its @cmd
AsyncClearPlaylist(reply) == Cmd(ServerCall("clear_playlist", <<>>, reply))

\* _play_jriver_item of async_play_media
PlayJRiverItem(media_id, reply) ==
    IF HasPrefix(media_id, "N")
    THEN AndThen(AsyncClearPlaylist(reply.clear_playlist),
                 IF Len(media_id) # 3 \/ ~IsInt(media_id[2])
                 THEN Raise("ValueError")
                 ELSE ServerCall("play_browse_files", media_id[2], reply.play))
    ELSE IF HasPrefix(media_id, "K")
    THEN AndThen(AsyncClearPlaylist(reply.clear_playlist),
                 ServerCall("play_item", Tail(media_id), reply.play))
    ELSE Raise("ValueError")

\* the body of JRiverMediaPlayer.async_play_media
PlayMedia(a_media_type, a_media_id, reply) ==
    LET is_source == IsMediaSourceId(a_media_id)
        media_type == IF is_source THEN "url" ELSE a_media_type
        media_id == IF is_source THEN <<"http://ha/media/a.mp3">> ELSE a_media_id
        media_type_lower == Lower(media_type)
    IN  IF media_type_lower = "playlist"
        THEN ServerCall("play_playlist", media_id, reply.play)
        ELSE IF media_type_lower = "file"
        THEN ServerCall("play_file", media_id, reply.play)
        ELSE IF media_type_lower \in LibraryMediaTypes
        THEN PlayJRiverItem(media_id, reply)
        ELSE IF HasPrefix(media_id, "K") \/ HasPrefix(media_id, "N")
        THEN PlayJRiverItem(media_id, reply)
        ELSE ServerCall("play_file", media_id, reply.play)

\* the service layer calls async_play_media of the media player and the call
\* ends: the method with its @cmd, against a server that answers with reply
AsyncPlayMedia(media_types, media_ids, replies) ==
    /\ IsNone(entity_call)
    /\ \E media_type \in media_types, media_id \in media_ids, reply \in replies :
         LET ran == Cmd(PlayMedia(media_type, media_id, reply))
         IN  call_log' = Some([command |-> Command("media_player", "async_play_media", TRUE),
                               media_type |-> media_type, media_id |-> media_id,
                               reply |-> reply, calls |-> ran.calls,
                               trace |-> ran.trace, raised |-> ran.raised,
                               escaped |-> ran.raised])
    /\ UNCHANGED entity_call
    /\ UNCHANGED <<coordVars, playerVars, browseVars, entryVars, flowVars>>


----------------------------------------------------------------------------
(* Media browsing (browse_media.py) *)

\* const.MC_FIELD_TO_HA_MEDIATYPE: library field name to MediaType name
MC_FIELD_TO_HA_MEDIATYPE ==
    [f \in {"Audio", "Artist", "Album", "Album Artist (auto)", "Composer", "Video",
             "Images", "Playlists", "Shows", "Series", "Genre", "Podcast"} |->
        CASE f = "Audio" -> "MUSIC"
          [] f \in {"Artist", "Album Artist (auto)", "Composer"} -> "ARTIST"
          [] f = "Album" -> "ALBUM"
          [] f = "Video" -> "VIDEO"
          [] f = "Images" -> "IMAGE"
          [] f = "Playlists" -> "PLAYLIST"
          [] f \in {"Shows", "Series"} -> "TVSHOW"
          [] f = "Genre" -> "GENRE"
          [] f = "Podcast" -> "PODCAST"]

\* const.MC_FIELD_TO_HA_MEDIACLASS: the same with TV_SHOW for TVSHOW
MC_FIELD_TO_HA_MEDIACLASS ==
    [f \in DOMAIN MC_FIELD_TO_HA_MEDIATYPE |->
        IF MC_FIELD_TO_HA_MEDIATYPE[f] = "TVSHOW" THEN "TV_SHOW"
        ELSE MC_FIELD_TO_HA_MEDIATYPE[f]]

\* _translate_to_media_type: the name of the MediaType, "" when there is none
TranslateToMediaType(media_type, media_sub_type, single) ==
    CASE media_type = "Video" ->
            (CASE media_sub_type = "Movie" -> "MOVIE"
               [] media_sub_type = "TV Show" -> IF single THEN "EPISODE" ELSE "TVSHOW"
               [] OTHER -> "VIDEO")
      [] media_type = "Audio" -> IF single THEN "TRACK" ELSE "MUSIC"
      [] media_type = "TV" -> IF single THEN "CHANNEL" ELSE "TVSHOW"
      [] media_type = "Image" -> "IMAGE"
      [] media_type = "Playlist" -> "PLAYLIST"
      [] media_type = "" ->
            (CASE media_sub_type = "Movie" -> "MOVIE"
               [] media_sub_type = "TV Show" -> IF single THEN "EPISODE" ELSE "TVSHOW"
               [] media_sub_type = "Music" -> IF single THEN "TRACK" ELSE "MUSIC"
               [] OTHER -> "")
      [] OTHER -> ""

\* _translate_to_media_class: the name of the MediaClass, "" when there is none
TranslateToMediaClass(media_type, media_sub_type, single) ==
    CASE media_type = "Video" ->
            (CASE media_sub_type = "Movie" -> "MOVIE"
               [] media_sub_type = "TV Show" -> IF single THEN "EPISODE" ELSE "TV_SHOW"
               [] OTHER -> "VIDEO")
      [] media_type = "Audio" -> IF single THEN "TRACK" ELSE "MUSIC"
      [] media_type = "TV" -> "CHANNEL"
      [] media_type = "Image" -> "IMAGE"
      [] media_type = "Playlist" -> "PLAYLIST"
      [] media_type = "" ->
            (CASE media_sub_type = "Movie" -> "MOVIE"
               [] media_sub_type = "TV Show" -> IF single THEN "EPISODE" ELSE "TV_SHOW"
               [] media_sub_type = "Music" -> IF single THEN "TRACK" ELSE "MUSIC"
               [] OTHER -> "")
      [] OTHER -> ""

\* str(MediaType.X): the value of the enum member, its name in lower case
MediaTypeValue(name) ==
    CASE name = "MUSIC" -> "music"
      [] name = "ARTIST" -> "artist"
      [] name = "ALBUM" -> "album"
      [] name = "VIDEO" -> "video"
      [] name = "MOVIE" -> "movie"
      [] name = "IMAGE" -> "image"
      [] name = "PLAYLIST" -> "playlist"
      [] name = "TVSHOW" -> "tvshow"
      [] name = "GENRE" -> "genre"
      [] name = "PODCAST" -> "podcast"
      [] OTHER -> name

\* a hamcws.BrowsePath rule: the name segments, the tag (field) segments that
\* follow them, and the media types and sub types in effect on its nodes
BrowseRule(names, tags, media_types, media_sub_types) ==
    [ names |-> names, tags |-> tags,
      media_types |-> media_types, media_sub_types |-> media_sub_types ]

\* the node of a rule at a depth: the BrowsePath object search_for_path returns
BrowseNode(rule, depth) ==
    [ name |-> (rule.names \o rule.tags)[depth],
      effective_media_types |-> rule.media_types,
      effective_media_sub_types |-> rule.media_sub_types ]

\* the tokens lead to a node of the rule: the name segments match literally,
\* the tag segments match any token
RuleContains(rule, tokens) ==
    /\ tokens # <<>>
    /\ Len(tokens) <= Len(rule.names) + Len(rule.tags)
    /\ \A i \in 1..Len(tokens) : i <= Len(rule.names) => tokens[i] = rule.names[i]

\* hamcws.search_for_path(browse_paths, path): the node of the first rule the
\* tokens lead into, None without such a rule
SearchForPath(browse_paths, tokens) ==
    LET hits == {i \in 1..Len(browse_paths) : RuleContains(browse_paths[i], tokens)}
    IN  IF hits = {} THEN None
        ELSE Some(BrowseNode(browse_paths[CHOOSE i \in hits : \A j \in hits : i <= j],
                             Len(tokens)))

\* the media types and sub types _classify_browse_path walks through, in order;
\* a path without sub types is translated with no sub type
TranslationOrder(path) ==
    LET subs == IF path.effective_media_sub_types = <<>> THEN <<"">>
                ELSE path.effective_media_sub_types
    IN  [types |-> path.effective_media_types, subs |-> subs]

\* _classify_browse_path with the field table consulted only for a path that
\* has no media type
ClassifyBrowsePath_TypesFirst(path) ==
    IF path.effective_media_types = <<>> /\ path.name \in DOMAIN MC_FIELD_TO_HA_MEDIATYPE
    THEN Some(<<MC_FIELD_TO_HA_MEDIACLASS[path.name], MC_FIELD_TO_HA_MEDIATYPE[path.name]>>)
    ELSE IF /\ path.effective_media_types # <<>>
            /\ TranslateToMediaType(path.effective_media_types[1], "", FALSE) # ""
    THEN Some(<<TranslateToMediaClass(path.effective_media_types[1], "", FALSE),
                TranslateToMediaType(path.effective_media_types[1], "", FALSE)>>)
    ELSE None

\* _classify_browse_path: the (MediaClass, MediaType) names of a BrowsePath
ClassifyBrowsePath(path) ==
    IF path.name \in DOMAIN MC_FIELD_TO_HA_MEDIATYPE
    THEN Some(<<MC_FIELD_TO_HA_MEDIACLASS[path.name], MC_FIELD_TO_HA_MEDIATYPE[path.name]>>)
    ELSE LET o == TranslationOrder(path)
             hits == {ij \in (1..Len(o.types)) \X (1..Len(o.subs)) :
                        /\ TranslateToMediaType(o.types[ij[1]], o.subs[ij[2]], FALSE) # ""
                        /\ TranslateToMediaClass(o.types[ij[1]], o.subs[ij[2]], FALSE) # ""}
         IN  IF hits = {} THEN None
             ELSE LET first == CHOOSE ij \in hits : \A kl \in hits :
                                  \/ ij[1] < kl[1]
                                  \/ ij[1] = kl[1] /\ ij[2] <= kl[2]
                  IN  Some(<<TranslateToMediaClass(o.types[first[1]], o.subs[first[2]], FALSE),
                             TranslateToMediaType(o.types[first[1]], o.subs[first[2]], FALSE)>>)

\* a call of browse_nodes: the kind of parent_id ("-1", "N|id|a > b", another),
\* the tokens of the parent name, parent_content_type, the replies of
\* browse_children and browse_files, and what media_source returns
BrowseRequest(browse_paths, parent_id, path_tokens, parent_content_type, nodes, files, source) ==
    [ browse_paths |-> browse_paths, parent_id |-> parent_id,
      path_tokens |-> path_tokens, parent_content_type |-> parent_content_type,
      nodes |-> nodes, files |-> files, media_source |-> source ]

\* BrowseMedia(...)
BrowseMedia(title, media_class, media_content_type, media_content_id, can_play, can_expand, children) ==
    [ title |-> title, media_class |-> media_class,
      media_content_type |-> media_content_type,
      media_content_id |-> media_content_id,
      can_play |-> can_play, can_expand |-> can_expand, children |-> children ]

\* the container of browse_nodes: [class, type] of the node being browsed
BrowseContainer(req) ==
    LET typed == IF req.parent_id = "N" /\ ~IsNone(req.parent_content_type)
                    /\ Val(req.parent_content_type) # ""
                 THEN Val(req.parent_content_type) ELSE "library"
        browse_path == SearchForPath(req.browse_paths, req.path_tokens)
    IN  IF req.parent_id # "N" THEN [class |-> "DIRECTORY", type |-> "library"]
        ELSE IF ~IsNone(browse_path)
        THEN LET classification == ClassifyBrowsePath(Val(browse_path))
             IN  IF ~IsNone(classification)
                 THEN [class |-> Val(classification)[1],
                       type |-> MediaTypeValue(Val(classification)[2])]
                 ELSE [class |-> "DIRECTORY", type |-> typed]
        ELSE IF req.path_tokens[1] = "Playlists"
        THEN [class |-> "PLAYLIST", type |-> "playlist"]
        ELSE [class |-> "DIRECTORY", type |-> typed]

\* the item browse_nodes builds for a child node, None when the child is skipped
BrowseItem(req, container, name) ==
    LET child_path == Append(req.path_tokens, name)
        browse_path == SearchForPath(req.browse_paths, child_path)
        classification == ClassifyBrowsePath(Val(browse_path))
    IN  IF container.class = "PLAYLIST"
        THEN Some([name |-> name, media_id |-> child_path,
                   mt |-> container.type, mc |-> container.class])
        ELSE IF IsNone(browse_path) THEN None
        ELSE IF ~IsNone(classification)
        THEN Some([name |-> name, media_id |-> child_path,
                   mt |-> MediaTypeValue(Val(classification)[2]),
                   mc |-> Val(classification)[1]])
        ELSE Some([name |-> name, media_id |-> child_path,
                   mt |-> MediaTypeValue(container.type), mc |-> container.class])

\* the result of browse_nodes: (library_info, count), or the error it raises
BrowseResult(req) ==
    IF req.parent_id \notin {"-1", "N"} THEN [raised |-> Some("ValueError")]
    ELSE
    LET container == BrowseContainer(req)
        is_child == req.parent_id = "N"
        kept == SelectSeq(req.nodes, LAMBDA n : ~IsNone(BrowseItem(req, container, n)))
        expandable == req.nodes # <<>> /\ kept # <<>>
        children ==
            IF req.nodes # <<>>
            THEN [i \in 1..Len(kept) |->
                    LET item == Val(BrowseItem(req, container, kept[i]))
                    IN  BrowseMedia(item.name, item.mc, item.mt, item.media_id,
                                    is_child, expandable, <<>>)]
            ELSE [i \in 1..Len(req.files) |->
                    BrowseMedia("Name",
                        TranslateToMediaClass(req.files[i].media_type,
                                              req.files[i].media_sub_type, TRUE),
                        MediaTypeValue(TranslateToMediaType(req.files[i].media_type,
                                              req.files[i].media_sub_type, TRUE)),
                        <<"K", i>>, is_child, FALSE, <<>>)]
        \* media_source returned one source: it is appended to the children list
        \* that library_info already holds
        listed == IF ~is_child /\ req.media_source = "source"
                  THEN Append(children,
                              BrowseMedia("source", "APP", "app", <<"media-source">>,
                                          FALSE, TRUE, <<>>))
                  ELSE children
    IN  [ raised |-> None,
          library_info |-> BrowseMedia(
              IF is_child THEN req.path_tokens ELSE <<"Media Library">>,
              container.class, container.type,
              req.path_tokens, ~expandable, expandable, listed),
          count |-> Len(children) ]

\* browse_nodes is called and returns or raises
BrowseNodes(requests) ==
    /\ \E req \in requests : browse' = Some([request |-> req, result |-> BrowseResult(req)])
    /\ UNCHANGED <<coordVars, playerVars, cmdVars, entryVars, flowVars>>

----------------------------------------------------------------------------
(* async_setup_entry and async_unload_entry (__init__.py) *)

\* what async_setup_entry leaves behind: the record in hass.data[DOMAIN], the
\* open connection of the MediaServer and the two registered listeners
SetupEntry ==
    [ state |-> "loaded",
      hass_data |-> TRUE,
      connection |-> "open",
      stop_listener |-> TRUE,
      update_listener |-> TRUE,
      unload_ok |-> None ]

\* the coordinator's timer starts a refresh cycle, which awaits the server
StartRefresh ==
    /\ entry.state = "loaded"
    /\ ~in_flight
    /\ cycles < MaxCycles
    /\ in_flight' = TRUE
    /\ UNCHANGED <<entry, coordVars, playerVars, cmdVars, browseVars, flowVars>>

\* the cycle in flight returns
FinishRefresh(gathers, rulesets, elapsed) ==
    /\ entry.state # "unloaded"
    /\ in_flight
    /\ AsyncRefresh(MaxCycles, gathers, rulesets, elapsed)

\* async_unload_entry is called and awaits async_unload_platforms
UnloadEntry ==
    /\ entry.state = "loaded"
    /\ entry' = [entry EXCEPT !.state = "unloading", !.unload_ok = None]
    /\ UNCHANGED <<in_flight, coordVars, playerVars, cmdVars, browseVars, flowVars>>

\* async_unload_platforms has answered unload_ok: the rest of async_unload_entry
PlatformsUnloaded(unload_ok) ==
    IF unload_ok /\ entry.hass_data
    THEN [entry EXCEPT !.state = "unloaded",
                       !.unload_ok = Some(unload_ok),
                       !.hass_data = FALSE,
                       !.connection = "closed",
                       !.stop_listener = FALSE,
                       !.update_listener = FALSE]
    ELSE [entry EXCEPT !.state = IF unload_ok THEN "unloaded" ELSE "loaded",
                       !.unload_ok = Some(unload_ok)]

\* async_unload_entry returns
UnloadReturns ==
    /\ entry.state = "unloading"
    /\ \E unload_ok \in BOOLEAN : entry' = PlatformsUnloaded(unload_ok)
    /\ UNCHANGED <<in_flight, coordVars, playerVars, cmdVars, browseVars, flowVars>>

----------------------------------------------------------------------------
(* The config flow (config_flow.py) *)

\* the host the user types and the addresses an access key resolves to
EnteredHost == "1.1.1.1"
LocalIps == <<"10.0.0.1", "10.0.0.2">>
Hosts == {EnteredHost} \cup {LocalIps[i] : i \in 1..Len(LocalIps)}

\* what get_auth_token and alive do for one host: both answer, the token is
\* refused, or one of them raises an error of hamcws, a timeout or anything else
ConnectOutcomes ==
    {"ok", "no_token", "CannotConnectError", "InvalidAuthError",
     "InvalidRequestError", "MediaServerError", "TimeoutError", "Exception"}

\* every way the hosts can behave during one validation
Connects == [Hosts -> ConnectOutcomes]

\* what resolve_access_key returns: None or a ServerAddress
ServerAddress(local_ip_list) ==
    [local_ip_list |-> local_ip_list, mac_address_list |-> <<"aa-bb-cc-dd-ee-ff">>]

\* the servers a validation can meet: what the access key resolves to and how
\* the hosts behave; an address beyond the resolved ones is never contacted,
\* so it is given one behaviour only
Servers ==
    { [resolution |-> None, connect |-> c] :
        c \in {c \in Connects : \A i \in 1..Len(LocalIps) : c[LocalIps[i]] = "ok"} }
    \cup
    UNION { { [resolution |-> Some(ServerAddress(SubSeq(LocalIps, 1, n))), connect |-> c] :
                c \in {c \in Connects : \A i \in (n + 1)..Len(LocalIps) : c[LocalIps[i]] = "ok"} } :
            n \in 0..Len(LocalIps) }

\* the connected MediaServer: the host it talks to and the name alive() cached
MediaServer(host) == [host |-> host, name |-> "Media Center"]

\* an exception of the flow, with the answer of the library that caused it
Failed(error, cause) == [ok |-> FALSE, error |-> error, cause |-> cause]

\* try_connect: the errors of hamcws become the exceptions of the flow,
\* anything else passes through
TryConnect(host, connect) ==
    LET outcome == connect[host] IN
    CASE outcome = "ok" -> Returned(MediaServer(host))
      [] outcome = "no_token" -> Failed("CannotConnect", outcome)
      [] outcome = "CannotConnectError" -> Failed("CannotConnect", outcome)
      [] outcome = "InvalidAuthError" -> Failed("InvalidAuth", outcome)
      [] outcome = "InvalidRequestError" -> Failed("InvalidRequest", outcome)
      [] outcome = "MediaServerError" -> Failed("InternalError", outcome)
      [] OTHER -> Failed(outcome, outcome)

\* the loop of validate_http over the addresses of the access key, from the
\* i-th on: None when the loop ends without a connection. Its except clauses
\* name the errors of hamcws, which try_connect has already translated.
RECURSIVE ConnectLocal(_, _, _)
ConnectLocal(server_info, i, connect) ==
    IF i > Len(server_info.local_ip_list) THEN None
    ELSE LET r == TryConnect(server_info.local_ip_list[i], connect) IN
         IF r.ok THEN Some(Returned(<<r.value, server_info.mac_address_list>>))
         ELSE CASE r.error = "CannotConnectError" -> ConnectLocal(server_info, i + 1, connect)
                [] r.error = "InvalidAuthError" -> Some(Failed("InvalidAuth", r.cause))
                [] r.error = "InvalidRequestError" -> Some(Failed("InvalidRequest", r.cause))
                [] r.error = "MediaServerError" -> Some(Failed("InternalError", r.cause))
                [] OTHER -> Some(r)

\* validate_http: by access key first, then by host and port
ValidateHttp(d, resolution, connect) ==
    LET direct == TryConnect(d.host, connect)
        by_host == IF direct.ok THEN Returned(<<direct.value, <<>> >>) ELSE direct
    IN  IF d.api_key # ""
        THEN IF IsNone(resolution)
             THEN Failed("InvalidAccessKey", "unresolved")
             ELSE LET local == ConnectLocal(Val(resolution), 1, connect) IN
                  IF IsNone(local) THEN by_host ELSE Val(local)
        ELSE by_host

\* the hosts validate_http hands to try_connect, in the order of the calls
RECURSIVE ContactedLocal(_, _, _)
ContactedLocal(server_info, i, connect) ==
    IF i > Len(server_info.local_ip_list) THEN <<>>
    ELSE LET r == TryConnect(server_info.local_ip_list[i], connect) IN
         <<server_info.local_ip_list[i]>> \o
            (IF ~r.ok /\ r.error = "CannotConnectError"
             THEN ContactedLocal(server_info, i + 1, connect) ELSE <<>>)

Contacted(d, resolution, connect) ==
    IF d.api_key # ""
    THEN IF IsNone(resolution) THEN <<>>
         ELSE LET tried == ContactedLocal(Val(resolution), 1, connect) IN
              IF IsNone(ConnectLocal(Val(resolution), 1, connect)) THEN tried \o <<d.host>> ELSE tried
    ELSE <<d.host>>

\* one call of validate_http
ValidateHttpCall(datas, servers) ==
    /\ \E d \in datas, server \in servers :
         validation' = Some([ data |-> d, server |-> server,
                              result |-> ValidateHttp(d, server.resolution, server.connect),
                              contacted |-> Contacted(d, server.resolution, server.connect) ])
    /\ UNCHANGED <<coordVars, playerVars, cmdVars, browseVars, entryVars, flow>>

\* JRiverConfigFlow.__init__ and the first form of the flow, with the unique
\* ids of the entries that exist already
JRiverConfigFlow(configured) ==
    [ handler |-> "config", type |-> "form", step_id |-> "user", errors |-> None,
      _access_key |-> "", _host |-> "", _friendly_name |-> "",
      _mac_addresses |-> <<>>, _username |-> None, _password |-> None,
      _device_per_zone |-> FALSE, _browse_paths |-> <<"Video,Movies">>,
      _device_zones |-> None, _extra_fields |-> <<>>, _ms |-> None,
      _zone_names |-> <<>>, _library_fields |-> None,
      unique_id |-> None, configured |-> configured, created |-> None,
      server_version |-> "31.0.10",
      submitted |-> None, last |-> [step |-> "", cause |-> ""] ]

\* _get_data
GetData(f) ==
    [ api_key |-> f._access_key, name |-> f._friendly_name, host |-> f._host,
      mac |-> f._mac_addresses, username |-> f._username, password |-> f._password,
      browse_paths |-> f._browse_paths, per_zone |-> f._device_per_zone,
      device_zones |-> f._device_zones, extra_fields |-> f._extra_fields ]

\* async_show_form
ShowForm(f, step_id, errors) ==
    [f EXCEPT !.type = "form", !.step_id = step_id, !.errors = errors]

\* what a successful validate_http leaves in the handler
Validated(f, value) ==
    [f EXCEPT !._ms = Some(value[1]),
              !._mac_addresses = value[2],
              !._host = value[1].host,
              !._friendly_name = IF @ = "" THEN value[1].name ELSE @]

\* the except clauses of async_step_user that end with the user form
UserStepError_TimeoutUnknown(exc) ==
    CASE exc = "InvalidAccessKey" -> "invalid_access_key"
      [] exc = "CannotConnect" -> "cannot_connect"
      [] OTHER -> "unknown"

UserStepError(exc) ==
    CASE exc = "InvalidAccessKey" -> "invalid_access_key"
      [] exc = "CannotConnect" -> "cannot_connect"
      [] exc = "TimeoutError" -> "timeout_connect"
      [] exc \in {"InvalidRequest", "InternalError"} -> "unknown"
      [] OTHER -> "unknown"

\* the exception that async_step_user answers with the credentials form
NeedsCredentials_Never(exc) == FALSE

NeedsCredentials(exc) == exc = "InvalidAuth"

\* the except clauses of async_step_credentials
CredentialsStepError(exc) ==
    CASE exc = "InvalidAuth" -> "invalid_auth"
      [] exc = "CannotConnect" -> "cannot_connect"
      [] OTHER -> "unknown"

\* async_step_user with the form filled in
AsyncStepUser(user_inputs, servers) ==
    /\ flow.handler = "config" /\ flow.type = "form" /\ flow.step_id = "user"
    /\ \E user_input \in user_inputs, server \in servers :
         LET f == [flow EXCEPT !._access_key = user_input.api_key,
                               !._host = user_input.host,
                               !._friendly_name = user_input.name,
                               !.submitted = Some(user_input)]
             unique_id == IF f._access_key # "" THEN f._access_key
                          ELSE IF f._friendly_name # "" THEN f._friendly_name
                          ELSE f._host
             g == IF unique_id # "" THEN [f EXCEPT !.unique_id = Some(unique_id)] ELSE f
             v == ValidateHttp(GetData(g), server.resolution, server.connect)
         IN  IF unique_id # "" /\ unique_id \in g.configured
             THEN flow' = [g EXCEPT !.type = "abort", !.errors = None,
                                    !.last = [step |-> "user", cause |-> "AbortFlow"]]
             ELSE IF v.ok
             THEN flow' = [ShowForm(Validated(g, v.value), "macs", None)
                             EXCEPT !.last = [step |-> "user", cause |-> "ok"]]
             ELSE IF NeedsCredentials(v.error)
             THEN flow' = [ShowForm(g, "credentials", None)
                             EXCEPT !.last = [step |-> "user", cause |-> v.cause]]
             ELSE flow' = [ShowForm(g, "user", Some(UserStepError(v.error)))
                             EXCEPT !.last = [step |-> "user", cause |-> v.cause]]
    /\ UNCHANGED <<coordVars, playerVars, cmdVars, browseVars, entryVars, validation>>

\* async_step_credentials with the form filled in
AsyncStepCredentials(user_inputs, servers) ==
    /\ flow.handler = "config" /\ flow.type = "form" /\ flow.step_id = "credentials"
    /\ \E user_input \in user_inputs, server \in servers :
         LET f == [flow EXCEPT !._username = user_input.username,
                               !._password = user_input.password,
                               !.submitted = Some(user_input)]
             v == ValidateHttp(GetData(f), server.resolution, server.connect)
         IN  IF v.ok
             THEN flow' = [ShowForm(Validated(f, v.value), "macs", None)
                             EXCEPT !.last = [step |-> "credentials", cause |-> "ok"]]
             ELSE flow' = [ShowForm(f, "credentials", Some(CredentialsStepError(v.error)))
                             EXCEPT !.last = [step |-> "credentials", cause |-> v.cause]]
    /\ UNCHANGED <<coordVars, playerVars, cmdVars, browseVars, entryVars, validation>>

\* a check of the address that lets everything through
InvalidMac_Never(mac) == FALSE

\* _invalid_mac: six pairs of hex digits, in either case, joined by one and
\* the same separator (":", "-" or nothing)
InvalidMac(mac) ==
    mac \notin {"aa:bb:cc:dd:ee:ff", "aa-bb-cc-dd-ee-ff", "AA-BB-CC-DD-EE-FF", "aabbccddeeff"}

\* m.replace("-", ":")
ReplaceDashes(mac) ==
    CASE mac = "aa-bb-cc-dd-ee-ff" -> "aa:bb:cc:dd:ee:ff"
      [] mac = "AA-BB-CC-DD-EE-FF" -> "AA:BB:CC:DD:EE:FF"
      [] mac = "aa-bb:cc" -> "aa:bb:cc"
      [] OTHER -> mac

\* async_step_macs with the form filled in
AsyncStepMacs(user_inputs) ==
    /\ flow.handler = "config" /\ flow.type = "form" /\ flow.step_id = "macs"
    /\ \E user_input \in user_inputs :
         LET macs == user_input.mac
             use_wol == user_input.use_wol
             checked == IF use_wol THEN macs ELSE <<>>
             f == [flow EXCEPT !.submitted = Some(user_input),
                               !.last = [step |-> "macs", cause |-> ""]]
         IN  IF macs = <<>> /\ use_wol
             THEN flow' = ShowForm(f, "macs", Some("no_mac_addresses"))
             ELSE IF \E i \in 1..Len(checked) : InvalidMac(checked[i])
             THEN flow' = ShowForm([f EXCEPT !._mac_addresses = checked], "macs", Some("invalid_mac"))
             ELSE flow' = ShowForm([f EXCEPT !._mac_addresses = [i \in 1..Len(macs) |-> ReplaceDashes(macs[i])]], "paths", None)
    /\ UNCHANGED <<coordVars, playerVars, cmdVars, browseVars, entryVars, validation>>

\* async_step_select_playback_fields without input: the form, after the
\* library fields were fetched if the handler has none yet
ShowSelectPlaybackFields(f, library_fields) ==
    ShowForm([f EXCEPT !._library_fields = IF IsNone(@) \/ @ = Some(<<>>) THEN Some(library_fields) ELSE @],
             "select_playback_fields", None)

\* a list of browse paths that is accepted whatever it holds
NoPaths_Never(browse_paths) == FALSE

\* not self._browse_paths
NoPaths(browse_paths) == browse_paths = <<>>

\* a zones step for any server that has a zone
SeveralZones_Any(zone_names) == Len(zone_names) > 0

\* len(self._zone_names) > 1
SeveralZones(zone_names) == Len(zone_names) > 1

\* async_step_paths with the form filled in; get_zones answers zone_names
AsyncStepPaths(user_inputs, zone_lists, field_lists) ==
    /\ flow.handler = "config" /\ flow.type = "form" /\ flow.step_id = "paths"
    /\ \E user_input \in user_inputs, zone_names \in zone_lists, library_fields \in field_lists :
         LET f == [flow EXCEPT !._browse_paths = user_input.browse_paths,
                               !.submitted = Some(user_input),
                               !.last = [step |-> "paths", cause |-> ""]]
             g == [f EXCEPT !._zone_names = zone_names]
         IN  IF NoPaths(f._browse_paths)
             THEN flow' = ShowForm(f, "paths", Some("no_paths"))
             ELSE IF SeveralZones(g._zone_names)
             THEN flow' = ShowForm(g, "zones", None)
             ELSE flow' = ShowSelectPlaybackFields(g, library_fields)
    /\ UNCHANGED <<coordVars, playerVars, cmdVars, browseVars, entryVars, validation>>

\* async_step_zones with the form filled in
AsyncStepZones(user_inputs, field_lists) ==
    /\ flow.handler = "config" /\ flow.type = "form" /\ flow.step_id = "zones"
    /\ \E user_input \in user_inputs, library_fields \in field_lists :
         LET f == [flow EXCEPT !._device_per_zone = user_input.per_zone,
                               !.submitted = Some(user_input),
                               !.last = [step |-> "zones", cause |-> ""]]
         IN  IF ~f._device_per_zone
             THEN flow' = ShowSelectPlaybackFields(f, library_fields)
             ELSE flow' = ShowForm(f, "select_zones", None)
    /\ UNCHANGED <<coordVars, playerVars, cmdVars, browseVars, entryVars, validation>>

\* _create_entry: the flow ends with a config entry
CreateEntry(f) ==
    [f EXCEPT !.type = "create_entry", !.errors = None,
              !.created = Some([title |-> IF f._access_key # "" THEN f._access_key ELSE f._host,
                                data |-> GetData(f)])]

\* async_step_select_zones with the form filled in
AsyncStepSelectZones(user_inputs) ==
    /\ flow.handler = "config" /\ flow.type = "form" /\ flow.step_id = "select_zones"
    /\ \E user_input \in user_inputs :
         LET f == [flow EXCEPT !._device_zones = Some(user_input.device_zones),
                               !.submitted = Some(user_input),
                               !.last = [step |-> "select_zones", cause |-> ""]]
         IN  IF user_input.device_zones = <<>>
             THEN flow' = ShowForm(f, "select_zones", Some("no_zones"))
             ELSE flow' = CreateEntry(f)
    /\ UNCHANGED <<coordVars, playerVars, cmdVars, browseVars, entryVars, validation>>

\* async_step_select_playback_fields with the form filled in
AsyncStepSelectPlaybackFields(user_inputs) ==
    /\ flow.handler = "config" /\ flow.type = "form" /\ flow.step_id = "select_playback_fields"
    /\ \E user_input \in user_inputs :
         flow' = CreateEntry([flow EXCEPT !._extra_fields = user_input.extra_fields,
                                          !.submitted = Some(user_input),
                                          !.last = [step |-> "select_playback_fields", cause |-> ""]])
    /\ UNCHANGED <<coordVars, playerVars, cmdVars, browseVars, entryVars, validation>>

----------------------------------------------------------------------------
(* The options flow (config_flow.py) *)

\* a config entry: what the config flow stored and the options stored since
ConfigEntry(entry_data, options) == [data |-> entry_data, options |-> options]

\* _get_existing
GetExisting(an_entry, key, default_value) ==
    IF key \in DOMAIN an_entry.options THEN an_entry.options[key]
    ELSE IF key \in DOMAIN an_entry.data THEN an_entry.data[key]
    ELSE default_value

\* JRiverOptionsFlowHandler.__init__ and the first form of the flow
JRiverOptionsFlowHandler(an_entry) ==
    [ handler |-> "options", type |-> "form", step_id |-> "init", errors |-> None,
      config_entry |-> an_entry,
      _library_fields |-> <<>>,
      _browse_paths |-> GetExisting(an_entry, "browse_paths", <<>>),
      _extra_fields |-> GetExisting(an_entry, "extra_fields", <<>>),
      _mac_addresses |-> GetExisting(an_entry, "mac", <<>>),
      _use_wol |-> GetExisting(an_entry, "use_wol", TRUE),
      created |-> None, server_version |-> "31.0.10",
      submitted |-> None, last |-> [step |-> "", cause |-> ""] ]

\* JRiverOptionsFlowHandler._get_data
GetOptionsData(f) ==
    [ browse_paths |-> f._browse_paths, extra_fields |-> f._extra_fields,
      mac |-> f._mac_addresses, use_wol |-> f._use_wol ]

\* the except clauses of _ensure_library_fields
EnsureLibraryFieldsError(exc) ==
    CASE exc = "InvalidAccessKey" -> "invalid_access_key"
      [] exc = "InvalidAuth" -> "invalid_auth"
      [] exc = "CannotConnect" -> "cannot_connect"
      [] exc = "TimeoutError" -> "timeout_connect"
      [] exc \in {"InvalidRequest", "InternalError"} -> "unknown"
      [] OTHER -> "unknown"

\* async_step_fields without input: the form, after the library fields were
\* fetched from the server of the entry if the handler has none yet
ShowFields(f, resolution, connect, library_fields) ==
    IF f._library_fields # <<>> THEN ShowForm(f, "fields", None)
    ELSE LET v == ValidateHttp(f.config_entry.data, resolution, connect) IN
         IF v.ok
         THEN ShowForm([f EXCEPT !._library_fields = library_fields], "fields", None)
         ELSE ShowForm(f, "fields", Some(EnsureLibraryFieldsError(v.error)))

\* JRiverOptionsFlowHandler.async_step_init with the form filled in
OptionsStepInit(user_inputs) ==
    /\ flow.handler = "options" /\ flow.type = "form" /\ flow.step_id = "init"
    /\ \E user_input \in user_inputs :
         LET f == [flow EXCEPT !._browse_paths = user_input.browse_paths,
                               !.submitted = Some(user_input),
                               !.last = [step |-> "init", cause |-> ""]]
         IN  IF ~NoPaths(f._browse_paths)
             THEN flow' = ShowForm(f, "macs", None)
             ELSE flow' = ShowForm(f, "init", Some("no_paths"))
    /\ UNCHANGED <<coordVars, playerVars, cmdVars, browseVars, entryVars, validation>>

\* JRiverOptionsFlowHandler.async_step_macs with the form filled in
OptionsStepMacs(user_inputs, servers, field_lists) ==
    /\ flow.handler = "options" /\ flow.type = "form" /\ flow.step_id = "macs"
    /\ \E user_input \in user_inputs, server \in servers, library_fields \in field_lists :
         LET macs == user_input.mac
             use_wol == user_input.use_wol
             checked == IF use_wol THEN macs ELSE <<>>
             f == [flow EXCEPT !.submitted = Some(user_input),
                               !.last = [step |-> "macs", cause |-> ""]]
         IN  IF macs = <<>> /\ use_wol
             THEN flow' = ShowForm(f, "macs", Some("no_mac_addresses"))
             ELSE IF \E i \in 1..Len(checked) : InvalidMac(checked[i])
             THEN flow' = ShowForm([f EXCEPT !._mac_addresses = checked], "macs", Some("invalid_mac"))
             ELSE flow' = ShowFields([f EXCEPT !._mac_addresses = [i \in 1..Len(macs) |-> ReplaceDashes(macs[i])]], server.resolution, server.connect, library_fields)
    /\ UNCHANGED <<coordVars, playerVars, cmdVars, browseVars, entryVars, validation>>

\* JRiverOptionsFlowHandler.async_step_fields with the form filled in
OptionsStepFields(user_inputs) ==
    /\ flow.handler = "options" /\ flow.type = "form" /\ flow.step_id = "fields"
    /\ \E user_input \in user_inputs :
         LET f == [flow EXCEPT !._extra_fields = user_input.extra_fields,
                               !.submitted = Some(user_input),
                               !.last = [step |-> "fields", cause |-> ""]]
         IN  flow' = [f EXCEPT !.type = "create_entry", !.errors = None,
                               !.created = Some([title |-> "", data |-> GetOptionsData(f)])]
    /\ UNCHANGED <<coordVars, playerVars, cmdVars, browseVars, entryVars, validation>>

----------------------------------------------------------------------------

Init ==
    /\ data = InitialData
    /\ heap = [r \in {IsDirectRef, PlaylistRef} |-> EmptyDict]
    /\ last_path_refresh = None
    /\ media_server_info = None
    /\ now = 0
    /\ cycles = 0
    /\ config_entry = [browse_paths |-> ConfBrowsePaths]
    /\ player = JRiverMediaPlayer(config_entry.browse_paths, None)
    /\ last_cycle = NoCycle
    /\ entity_call = None
    /\ call_log = None
    /\ browse = None
    /\ entry = SetupEntry
    /\ in_flight = FALSE
    /\ flow = JRiverConfigFlow({})
    /\ validation = None

\* the coordinator polls every second
UpdateInterval == 1

Next == AsyncRefresh(MaxCycles, GatherReplies, BrowseRules, {UpdateInterval})

Spec == Init /\ [][Next]_vars

\* The browse paths: servers below, at and above the first version that can
\* list its browse rules, polled after a second or around the refresh period,
\* for a config entry with or without browse paths text.
PathGatherReplies ==
    { [server_info |-> v, zones |-> <<>>, view_mode |-> "NO_UI"] :
        v \in {"31.0.10", "32.0.6", "32.1.0"} }

PathElapsed ==
    {UpdateInterval, PathRefreshSeconds - 1, PathRefreshSeconds, PathRefreshSeconds + 1}

InitPaths ==
    /\ data = InitialData
    /\ heap = [r \in {IsDirectRef, PlaylistRef} |-> EmptyDict]
    /\ last_path_refresh = None
    /\ media_server_info = None
    /\ now = 0
    /\ cycles = 0
    /\ config_entry \in {[browse_paths |-> <<>>], [browse_paths |-> ConfBrowsePaths]}
    /\ player = JRiverMediaPlayer(config_entry.browse_paths, None)
    /\ last_cycle = NoCycle
    /\ entity_call = None
    /\ call_log = None
    /\ browse = None
    /\ entry = SetupEntry
    /\ in_flight = FALSE
    /\ flow = JRiverConfigFlow({})
    /\ validation = None

NextPaths == AsyncRefresh(MaxPathCycles, PathGatherReplies, BrowseRules, PathElapsed)

SpecPaths == InitPaths /\ [][NextPaths]_vars

\* The capability check: servers of every kind of version string, polled
\* every second.
VersionStrings ==
    {"", "Unknown", "9.0.0", "31.0.10", "32.0.5", "32.0.6", "32.0.10", "32.1.0", "33.0.0"}

VersionGatherReplies ==
    {[server_info |-> v, zones |-> <<>>, view_mode |-> "NO_UI"] : v \in VersionStrings}

NextVersions == AsyncRefresh(MaxCycles, VersionGatherReplies, BrowseRules, {UpdateInterval})

SpecVersions == InitPaths /\ [][NextVersions]_vars

\* Media browsing: the rule of the configuration text, a rule of the server
\* with media types on it, a rule with neither a known field nor a media type,
\* and the playlists; browsed at every depth.
BrowsePathList ==
    << BrowseRule(<<"Audio", "Artist">>, <<"Album Artist (auto)", "Album">>, <<>>, <<>>),
       BrowseRule(<<"Films", "Movies">>, <<>>, <<"Video">>, <<"Movie">>),
       BrowseRule(<<"Stuff", "Misc">>, <<"Keywords">>, <<>>, <<>>),
       BrowseRule(<<"Classical">>, <<"Album Artist (auto)">>, <<"Video">>, <<"Movie">>),
       BrowseRule(<<"Playlists">>, <<>>, <<"Playlist">>, <<>>) >>

BrowseTokens ==
    { <<"Audio">>, <<"Audio", "Artist">>, <<"Audio", "Genre">>,
      <<"Audio", "Artist", "Beatles">>, <<"Audio", "Artist", "Album Artist (auto)">>,
      <<"Audio", "Artist", "Beatles", "Abbey Road">>,
      <<"Films">>, <<"Films", "Movies">>,
      <<"Stuff">>, <<"Stuff", "Misc">>, <<"Stuff", "Misc", "Holiday">>,
      <<"Classical">>, <<"Classical", "Bach">>,
      <<"Playlists">>, <<"Playlists", "Recent">>, <<"Elsewhere">> }

BrowseChildren ==
    { <<>>, <<"Beatles">>, <<"Artist", "Genre">>,
      <<"Audio", "Films", "Stuff", "Classical", "Nowhere">>,
      <<"Movies", "Misc">> }

BrowseFiles ==
    { <<>>, <<[media_type |-> "Audio", media_sub_type |-> "Music"]>>,
      <<[media_type |-> "Data", media_sub_type |-> ""]>> }

BrowseRequests ==
    { BrowseRequest(BrowsePathList, "-1", <<>>, None, nodes, files, source) :
        nodes \in BrowseChildren, files \in BrowseFiles,
        source \in {"error", "overview", "source"} }
    \cup
    { BrowseRequest(BrowsePathList, "N", tokens, ct, nodes, files, "error") :
        tokens \in BrowseTokens, ct \in {None, Some("artist")},
        nodes \in BrowseChildren, files \in BrowseFiles }
    \cup
    { BrowseRequest(BrowsePathList, "K", <<>>, None, <<>>, <<>>, "error") }

NextBrowse == BrowseNodes(BrowseRequests)

SpecBrowse == Init /\ [][NextBrowse]_vars

\* Setup and unload of the config entry while the coordinator polls
NextEntry ==
    \/ StartRefresh
    \/ FinishRefresh(PathGatherReplies, BrowseRules, {UpdateInterval})
    \/ UnloadEntry
    \/ UnloadReturns

SpecEntry == Init /\ [][NextEntry]_vars

\* The config flow: a user who enters the host, with or without an access key
\* and a name, against servers that answer or fail in every way, with or
\* without an entry of that access key already set up.
UserInputs ==
    { [api_key |-> k, host |-> EnteredHost, name |-> n] :
        k \in {"", "abcdef"}, n \in {"", "Lounge"} }

CredentialInputs ==
    { [username |-> None, password |-> None],
      [username |-> Some("user"), password |-> Some("secret")] }

MacInputs ==
    { [mac |-> m, use_wol |-> w] :
        m \in { <<>>, <<"aa-bb-cc-dd-ee-ff">>, <<"aa:bb:cc:dd:ee:ff", "aa-bb:cc">> },
        w \in BOOLEAN }

PathInputs == { [browse_paths |-> b] : b \in { <<>>, <<"Video,Movies">> } }

ZoneLists == { <<>>, <<"Player">>, <<"Player", "Kitchen">> }

FieldLists == { <<"Album", "Artist">> }

ZoneInputs == { [per_zone |-> b] : b \in BOOLEAN }

SelectZoneInputs == { [device_zones |-> z] : z \in { <<>>, <<"Kitchen">> } }

FieldInputs == { [extra_fields |-> x] : x \in { <<>>, <<"Album">> } }

\* the entries whose options are changed: one set up by host without options
\* yet, one set up by access key whose options were stored once already
ConfiguredEntries ==
    { ConfigEntry(GetData([JRiverConfigFlow({}) EXCEPT !._host = EnteredHost]), EmptyDict),
      ConfigEntry(GetData([JRiverConfigFlow({}) EXCEPT !._access_key = "abcdef", !._host = EnteredHost, !._mac_addresses = <<"aa:bb:cc:dd:ee:ff">>]),
                  [browse_paths |-> <<>>, extra_fields |-> <<"Album">>, mac |-> <<>>, use_wol |-> FALSE]) }

\* the version of the server the flow talks to: one that cannot list its
\* browse rules and one that can
FlowServerVersions == {"31.0.10", "32.0.6"}

InitFlow ==
    /\ data = InitialData
    /\ heap = [r \in {IsDirectRef, PlaylistRef} |-> EmptyDict]
    /\ last_path_refresh = None
    /\ media_server_info = None
    /\ now = 0
    /\ cycles = 0
    /\ config_entry = [browse_paths |-> ConfBrowsePaths]
    /\ player = JRiverMediaPlayer(config_entry.browse_paths, None)
    /\ last_cycle = NoCycle
    /\ entity_call = None
    /\ call_log = None
    /\ browse = None
    /\ entry = SetupEntry
    /\ in_flight = FALSE
    /\ \E f \in {JRiverConfigFlow(c) : c \in {{}, {"abcdef"}}}
                  \cup {JRiverOptionsFlowHandler(e) : e \in ConfiguredEntries},
          v \in FlowServerVersions :
            flow = [f EXCEPT !.server_version = v]
    /\ validation = None

NextFlow ==
    \/ AsyncStepUser(UserInputs, Servers)
    \/ AsyncStepCredentials(CredentialInputs, Servers)
    \/ AsyncStepMacs(MacInputs)
    \/ AsyncStepPaths(PathInputs, ZoneLists, FieldLists)
    \/ AsyncStepZones(ZoneInputs, FieldLists)
    \/ AsyncStepSelectZones(SelectZoneInputs)
    \/ AsyncStepSelectPlaybackFields(FieldInputs)
    \/ OptionsStepInit(PathInputs)
    \/ OptionsStepMacs(MacInputs, Servers, FieldLists)
    \/ OptionsStepFields(FieldInputs)

SpecFlow == InitFlow /\ [][NextFlow]_vars

\* validate_http on its own: what a flow hands it, with and without an access
\* key, against every server
ValidationData ==
    { GetData([JRiverConfigFlow({}) EXCEPT !._access_key = k, !._host = EnteredHost]) : k \in {"", "abcdef"} }

NextValidate == ValidateHttpCall(ValidationData, Servers)

SpecValidate == Init /\ [][NextValidate]_vars

\* the entity commands, one call at a time
NextCmd ==
    \/ CallCommand
    \/ FuncReturns
    \/ FuncRaises
    \/ RequestRefresh

SpecCmd == Init /\ [][NextCmd]_vars

\* Playing media: the media types and ids of the service call, and the replies
\* of the server to the clear-playlist call and to the play call
PlayMediaTypes == {"playlist", "file", "music", "MUSIC", "album", "url"}

PlayMediaIds ==
    { <<"N", "12", "Audio">>, <<"N", "12">>, <<"K", "34">>, <<"56">>,
      <<"http://host/a.mp3">>, <<"media-source://media/a.mp3">> }

PlayReplies == [clear_playlist : {"ok"} \cup ClientErrors, play : {"ok"} \cup ClientErrors]

NextPlay == AsyncPlayMedia(PlayMediaTypes, PlayMediaIds, PlayReplies)

SpecPlay == Init /\ [][NextPlay]_vars

----------------------------------------------------------------------------
(* Properties of the refresh cycle *)

\* the contents of a snapshot's shared dicts in a heap
IsDirectByZone(d, h) == h[d.is_direct_by_zone]
PlaylistByZone(d, h) == h[d.playlist_by_zone]

\* a snapshot returned by a cycle, as opposed to the initial MediaServerData()
IsPublished(d) == ~IsNone(d.server_info)

\* this step is a refresh cycle
CycleStep == cycles' # cycles

\* C1: in a cycle whose playback-info fetches returned, the audio-path and the
\* playlist fetch are issued for a zone exactly when the previous snapshot has
\* no playback info for it, or its file_key or its state differs from the
\* previous snapshot's; when the cycle publishes, every other zone has the
\* previous snapshot's is_direct and playlist value in the new snapshot.
C1_FullRefreshIffChanged ==
    [][ (CycleStep /\ ~IsNone(last_cycle'.playback_info)) =>
          LET infos == Val(last_cycle'.playback_info)
              last == data.playback_info_by_zone
              Changed(z) ==
                  \/ z \notin DOMAIN last
                  \/ last[z].file_key # infos[z].file_key
                  \/ last[z].state # infos[z].state
          IN  /\ \A z \in DOMAIN infos :
                    /\ (z \in last_cycle'.audio_path) <=> Changed(z)
                    /\ (z \in last_cycle'.playlist) <=> Changed(z)
              /\ last_cycle'.audio_path \subseteq DOMAIN infos
              /\ last_cycle'.playlist \subseteq DOMAIN infos
              /\ last_cycle'.outcome = "published" =>
                    \A z \in DOMAIN infos :
                        ~Changed(z) =>
                            /\ DictGet(IsDirectByZone(data', heap'), z)
                                 = DictGet(IsDirectByZone(data, heap), z)
                            /\ DictGet(PlaylistByZone(data', heap'), z)
                                 = DictGet(PlaylistByZone(data, heap), z)
      ]_vars

\* C1 witness: a published cycle that re-fetched one zone and carried another,
\* whose is_direct and playlist values are present, forward
C1_Witness ==
    /\ last_cycle.outcome = "published"
    /\ \E z1, z2 \in DOMAIN data.playback_info_by_zone :
         /\ z1 \in last_cycle.audio_path
         /\ z2 \notin last_cycle.audio_path
         /\ z2 \notin last_cycle.playlist
         /\ z2 \in DOMAIN IsDirectByZone(data, heap)
         /\ z2 \in DOMAIN PlaylistByZone(data, heap)

\* C2 (as claimed): between two consecutive published snapshots a zone's
\* position-updated-at timestamp differs exactly when its position_ms changed.
C2_TimestampChangesIffPositionChanged ==
    [][ (CycleStep /\ IsPublished(data) /\ last_cycle'.outcome = "published") =>
          \A z \in (DOMAIN data.playback_info_by_zone)
                     \cap (DOMAIN data'.playback_info_by_zone) :
              (DictGet(data'.position_updated_at_by_zone, z)
                 # DictGet(data.position_updated_at_by_zone, z))
              <=> (data'.playback_info_by_zone[z].position_ms
                     # data.playback_info_by_zone[z].position_ms)
      ]_vars

\* C3 (as claimed): the mappings of a published snapshot keep the contents they
\* were published with, whatever the later cycles do.
C3_PublishedMappingsNeverChange ==
    [][ (CycleStep /\ IsPublished(data)) =>
          /\ IsDirectByZone(data, heap') = IsDirectByZone(data, heap)
          /\ PlaylistByZone(data, heap') = PlaylistByZone(data, heap)
      ]_vars

\* every per-zone mapping of snapshot d is keyed by names of the zones of d
KeyedByZones(d, h) ==
    /\ DOMAIN d.playback_info_by_zone \subseteq ZoneNamesOf(d.zones)
    /\ DOMAIN d.position_updated_at_by_zone \subseteq ZoneNamesOf(d.zones)
    /\ DOMAIN IsDirectByZone(d, h) \subseteq ZoneNamesOf(d.zones)
    /\ DOMAIN PlaylistByZone(d, h) \subseteq ZoneNamesOf(d.zones)

\* C4 (as claimed): in every published snapshot each per-zone mapping is keyed
\* by names of the zones of that snapshot, also when a zone of the previous
\* snapshot is no longer returned: a cycle that starts from a published
\* snapshot keyed by its zones publishes a snapshot keyed by its zones.
C4_MappingsKeyedByZones ==
    [][ (CycleStep /\ IsPublished(data) /\ KeyedByZones(data, heap)
            /\ last_cycle'.outcome = "published") =>
          KeyedByZones(data', heap')
      ]_vars

\* C5 (as claimed): whichever fetch raises a client error, an authentication
\* failure leaves the cycle as ConfigEntryAuthFailed and any other client
\* error as UpdateFailed.
C5_ClientErrorsAreTranslated ==
    last_cycle.outcome = "failed" =>
        /\ last_cycle.cause = "InvalidAuthError" =>
              last_cycle.leaving = "ConfigEntryAuthFailed"
        /\ last_cycle.cause \in {"CannotConnectError", "InvalidRequestError",
                                 "MediaServerError"} =>
              last_cycle.leaving = "UpdateFailed"

\* C6 (as claimed): a failed cycle leaves the current snapshot, a published
\* one, and all the values it holds as they were.
C6_FailedCycleKeepsSnapshot ==
    [][ (CycleStep /\ IsPublished(data) /\ last_cycle'.outcome = "failed") =>
          /\ data' = data
          /\ IsDirectByZone(data', heap') = IsDirectByZone(data, heap)
          /\ PlaylistByZone(data', heap') = PlaylistByZone(data, heap)
      ]_vars

\* C7: when the playback-info fetch of a zone fails, the cycle fails, the
\* snapshot and its dicts stay as they are (nothing of the zones that answered
\* is kept), and no audio-path, playlist or browse-rule fetch is issued.
C7_PlaybackFailureAbortsCycle ==
    [][ (CycleStep /\ last_cycle'.playback_failed # {}) =>
          /\ last_cycle'.outcome = "failed"
          /\ data' = data
          /\ heap' = heap
          /\ last_cycle'.audio_path = {}
          /\ last_cycle'.playlist = {}
          /\ ~last_cycle'.browse_rules
          /\ last_path_refresh' = last_path_refresh
      ]_vars

\* C7 witness: a cycle on a published snapshot in which one zone's playback
\* fetch raised while another zone's returned
C7_Witness ==
    /\ IsPublished(data)
    /\ last_cycle.playback_failed # {}
    /\ last_cycle.playback_failed # last_cycle.playback_zones
    /\ last_cycle.outcome = "failed"

----------------------------------------------------------------------------
(* Properties of the command guard *)

\* the entity command that ended last
Ended == Val(call_log)

RefreshRequests(trace) ==
    Cardinality({i \in 1..Len(trace) : trace[i] = "async_request_refresh"})

C9_GuardSwallowsClientAuthError ==
    (~IsNone(call_log) /\ Ended.command.guarded
        /\ Ended.raised = Some("InvalidAuthError")) =>
        /\ IsNone(Ended.escaped)
        /\ Ended.trace = <<"_LOGGER.error">>

\* C10 (as claimed): every command method of the media player and of the
\* remote requests a refresh when it succeeds and lets no connectivity error
\* reach the caller.
C10_EveryCommandIsGuarded ==
    ~IsNone(call_log) =>
        /\ IsNone(Ended.raised) => RefreshRequests(Ended.trace) = 1
        /\ Ended.raised = Some("CannotConnectError") => IsNone(Ended.escaped)

----------------------------------------------------------------------------
(* Properties of the snapshot accessors *)

\* the zone a lookup without a zone name is said to use: the active zone, the
\* first zone when none is active, no zone when the list is empty
DefaultZoneName(d) ==
    IF \E i \in 1..Len(d.zones) : d.zones[i].active
    THEN Some(d.zones[CHOOSE i \in 1..Len(d.zones) :
                        /\ d.zones[i].active
                        /\ \A j \in 1..(i - 1) : ~d.zones[j].active].name)
    ELSE IF d.zones # <<>> THEN Some(d.zones[1].name) ELSE None

\* C11 (as claimed): get_active_zone_name() is the name of the active zone, the
\* name of the first zone when no zone is active, nothing when there is no zone.
C11_ActiveZoneNameOrFirst ==
    GetActiveZoneName(data) = DefaultZoneName(data)

\* names a caller may pass: the zones of the model and one no server reports
LookupNames == ZoneNames \cup {"Cinema"}

\* C12: each per-zone accessor returns, for a zone name, that name's entry of
\* its mapping or nothing; without a zone name, what it returns for the active
\* zone's name, else for the first zone's name, and nothing with no zone.
C12_AccessorsByNameOrDefault ==
    /\ \A n \in LookupNames :
          /\ GetPlaybackInfo(data, heap, Some(n)) = DictGet(data.playback_info_by_zone, n)
          /\ GetPositionUpdatedAt(data, heap, Some(n))
                = DictGet(data.position_updated_at_by_zone, n)
          /\ GetAudioPathIsDirect(data, heap, Some(n)) = DictGet(heap[data.is_direct_by_zone], n)
          /\ GetPlaylist(data, heap, Some(n)) = DictGet(heap[data.playlist_by_zone], n)
    /\ IF IsNone(DefaultZoneName(data))
       THEN /\ IsNone(GetPlaybackInfo(data, heap, None))
            /\ IsNone(GetPositionUpdatedAt(data, heap, None))
            /\ IsNone(GetAudioPathIsDirect(data, heap, None))
            /\ IsNone(GetPlaylist(data, heap, None))
       ELSE /\ GetPlaybackInfo(data, heap, None)
                 = GetPlaybackInfo(data, heap, DefaultZoneName(data))
            /\ GetPositionUpdatedAt(data, heap, None)
                 = GetPositionUpdatedAt(data, heap, DefaultZoneName(data))
            /\ GetAudioPathIsDirect(data, heap, None)
                 = GetAudioPathIsDirect(data, heap, DefaultZoneName(data))
            /\ GetPlaylist(data, heap, None)
                 = GetPlaylist(data, heap, DefaultZoneName(data))

\* C12 witness: a snapshot with zones of which none is active, whose lookups
\* without a zone name all return the first zone's values
C12_Witness ==
    /\ data.zones # <<>>
    /\ IsNone(NextActiveZone(data.zones))
    /\ ~IsNone(GetPlaybackInfo(data, heap, None))
    /\ ~IsNone(GetPositionUpdatedAt(data, heap, None))
    /\ ~IsNone(GetAudioPathIsDirect(data, heap, None))
    /\ ~IsNone(GetPlaylist(data, heap, None))

----------------------------------------------------------------------------
(* Properties of the browse paths *)

\* the cycle of this step got as far as _refresh_paths_if_necessary
ReachesPaths ==
    /\ CycleStep
    /\ last_cycle'.outcome = "published" \/ last_cycle'.stage = "browse_rules"

\* C13: on a server that passes the capability check, a cycle fetches the
\* browse rules exactly when no browse paths are cached, or 900 seconds or more
\* have passed since the last path refresh, or the version reported in this
\* cycle differs from the snapshot's; otherwise the new snapshot has the cached
\* paths.
C13_PathsRefetchedIffStale ==
    [][ (ReachesPaths /\ CanRefreshPaths(media_server_info')) =>
          LET stale ==
                \/ IsNone(data.browse_paths)
                \/ /\ ~IsNone(last_path_refresh)
                   /\ now' - Val(last_path_refresh) >= 900
                \/ /\ ~IsNone(data.server_info)
                   /\ Val(data.server_info) # Val(media_server_info')
          IN  /\ last_cycle'.browse_rules <=> stale
              /\ ~stale => /\ last_cycle'.outcome = "published"
                           /\ data'.browse_paths = data.browse_paths
                           /\ last_path_refresh' = last_path_refresh
      ]_vars

\* C13 witness: a cycle 899 seconds after the last path refresh, on an
\* unchanged version, published the cached paths without fetching the rules
C13_Witness ==
    /\ last_cycle.outcome = "published"
    /\ ~last_cycle.browse_rules
    /\ CanRefreshPaths(media_server_info)
    /\ ~IsNone(last_path_refresh)
    /\ now - Val(last_path_refresh) = 899
    /\ Val(data.browse_paths) # <<>>

\* C14: the capability check is false without a version, for an empty version
\* and for "Unknown", false for the versions below 32.0.6 and true for 32.0.6
\* and the versions above it, their sections compared as numbers; a cycle
\* asks for the browse rules only when the check is true.
C14_CapabilityFromVersion ==
    /\ IsNone(media_server_info) => ~CanRefreshPaths(media_server_info)
    /\ ~IsNone(media_server_info) =>
          /\ Val(media_server_info) \in {"", "Unknown", "9.0.0", "31.0.10", "32.0.5"}
                => ~CanRefreshPaths(media_server_info)
          /\ Val(media_server_info) \in {"32.0.6", "32.0.10", "32.1.0", "33.0.0"}
                => CanRefreshPaths(media_server_info)
    /\ last_cycle.browse_rules => CanRefreshPaths(media_server_info)

\* C14 witness: a cycle on version 32.0.10, above 32.0.6 as a number and below
\* it as text, fetched the browse rules
C14_Witness ==
    /\ media_server_info = Some("32.0.10")
    /\ last_cycle.outcome = "published"
    /\ last_cycle.browse_rules

\* the browse paths a player uses, no paths when it has none
PathsOf(browse_paths) == IF IsNone(browse_paths) THEN <<>> ELSE Val(browse_paths)

\* C15: while the server fails the capability check, no cycle asks it for the
\* browse rules, and after every coordinator update the media player uses the
\* browse paths parsed from the text of the config entry.
C15_ConfiguredPathsBelowCapability ==
    [][ (CycleStep /\ ~CanRefreshPaths(media_server_info')) =>
          /\ ~last_cycle'.browse_rules
          /\ ListenersCalled =>
                PathsOf(player'.browse_paths)
                  = ParseBrowsePathsFromText(config_entry.browse_paths)
      ]_vars

\* C15 witness: the second cycle in a row on a server of version 31.0.10 has
\* published, and the player of an entry with browse paths text uses them
C15_Witness ==
    /\ cycles = 2
    /\ media_server_info = Some("31.0.10")
    /\ data.server_info = Some("31.0.10")
    /\ last_cycle.outcome = "published"
    /\ data.browse_paths = Some(<<>>)
    /\ config_entry.browse_paths # <<>>
    /\ player.browse_paths = Some(ParseBrowsePathsFromText(config_entry.browse_paths))

----------------------------------------------------------------------------
(* Properties of media browsing *)

\* the last call of browse_nodes, and the BrowsePath its parent name leads to
Browsed == Val(browse)
BrowsedPath == SearchForPath(Browsed.request.browse_paths, Browsed.request.path_tokens)

\* the BrowsePath a child of the browsed node leads to
ChildPath(child) ==
    SearchForPath(Browsed.request.browse_paths, child.media_content_id)

\* C16: a path that ends on the tag "Album Artist (auto)" of a rule is
\* classified (ARTIST, ARTIST) from the field table, whatever the segments
\* before it and the media types of the rule are: so is the container when it
\* is the browsed node, and so is each child that it leads to.
C16_TagResolvesToArtist ==
    (~IsNone(browse) /\ IsNone(Browsed.result.raised)) =>
        /\ (/\ Browsed.request.parent_id = "N"
            /\ ~IsNone(BrowsedPath)
            /\ Val(BrowsedPath).name = "Album Artist (auto)") =>
              /\ ClassifyBrowsePath(Val(BrowsedPath)) = Some(<<"ARTIST", "ARTIST">>)
              /\ Browsed.result.library_info.media_class = "ARTIST"
              /\ Browsed.result.library_info.media_content_type = "artist"
        /\ Browsed.request.nodes # <<>> =>
              \A i \in 1..Browsed.result.count :
                LET child == Browsed.result.library_info.children[i]
                IN  (/\ Browsed.result.library_info.media_class # "PLAYLIST"
                     /\ Val(ChildPath(child)).name = "Album Artist (auto)") =>
                        /\ child.media_class = "ARTIST"
                        /\ child.media_content_type = "artist"

\* C16 witness: the rule Audio,Artist|Album Artist (auto),Album browsed at the
\* tag position, under a token that is not a field name
C16_Witness ==
    /\ ~IsNone(browse)
    /\ Browsed.request.path_tokens = <<"Audio", "Artist", "Beatles">>
    /\ Val(BrowsedPath).name = "Album Artist (auto)"
    /\ Browsed.result.library_info.media_class = "ARTIST"

\* no token of the browsed path and no segment of the rule it leads into, down
\* to the browsed node, is a key of the field table
NoKnownSegment(tokens, path) ==
    /\ \A i \in 1..Len(tokens) : tokens[i] \notin DOMAIN MC_FIELD_TO_HA_MEDIATYPE
    /\ ~IsNone(path) => Val(path).name \notin DOMAIN MC_FIELD_TO_HA_MEDIATYPE

\* C17 (as claimed): a browsed path of which no segment is a key of the field
\* table has no classification, and browse_nodes gives the container the
\* DIRECTORY media class.
C17_UnknownSegmentsAreDirectories ==
    (/\ ~IsNone(browse)
     /\ IsNone(Browsed.result.raised)
     /\ Browsed.request.parent_id = "N"
     /\ NoKnownSegment(Browsed.request.path_tokens, BrowsedPath)) =>
        /\ ~IsNone(BrowsedPath) => IsNone(ClassifyBrowsePath(Val(BrowsedPath)))
        /\ Browsed.result.library_info.media_class = "DIRECTORY"

----------------------------------------------------------------------------
(* Properties of the config entry *)

\* C18 (as claimed): once the unload of the entry has begun no cycle publishes
\* a snapshot; a successful platform unload removes the record of the entry,
\* closes the connection and removes both listeners; a failed one leaves the
\* record, the connection and the listeners as they are.
C18_UnloadAbandonsRefresh ==
    [][ /\ (entry.state # "loaded" /\ CycleStep) => last_cycle'.outcome # "published"
        /\ (entry.state = "unloading" /\ entry'.unload_ok = Some(TRUE)) =>
              /\ ~entry'.hass_data
              /\ entry'.connection = "closed"
              /\ ~entry'.stop_listener
              /\ ~entry'.update_listener
        /\ (entry.state = "unloading" /\ entry'.unload_ok = Some(FALSE)) =>
              /\ entry'.hass_data = entry.hass_data
              /\ entry'.connection = entry.connection
              /\ entry'.stop_listener = entry.stop_listener
              /\ entry'.update_listener = entry.update_listener
      ]_vars

----------------------------------------------------------------------------
(* Properties of the config flow *)

\* a step of the handler of the form that is on display
StepOf(step_id) == flow.type = "form" /\ flow.step_id = step_id /\ flow' # flow

\* the error each failure of the validation stands for
ExpectedUserError(cause) ==
    CASE cause = "unresolved" -> "invalid_access_key"
      [] cause \in {"CannotConnectError", "no_token"} -> "cannot_connect"
      [] cause = "TimeoutError" -> "timeout_connect"
      [] cause \in {"InvalidRequestError", "MediaServerError", "Exception"} -> "unknown"

UserStepFailures ==
    {"unresolved", "CannotConnectError", "no_token", "TimeoutError",
     "InvalidRequestError", "MediaServerError", "Exception"}

\* C19: when the validation of the user step fails for any reason but invalid
\* authentication, the flow shows the user form again with the error of that
\* failure (an unresolved access key: invalid_access_key; no connection:
\* cannot_connect; a timeout: timeout_connect; an invalid request, a server
\* error or anything else: unknown), creates no entry and stays on the step.
C19_UserStepFailureShowsError ==
    [][ StepOf("user") /\ flow'.last.cause \in UserStepFailures
        => /\ flow'.type = "form"
           /\ flow'.step_id = "user"
           /\ flow'.errors = Some(ExpectedUserError(flow'.last.cause))
           /\ flow'.created = None ]_vars

\* C19 happens: the user form is back after a timeout
C19_Witness ==
    /\ flow.type = "form" /\ flow.step_id = "user"
    /\ flow.last = [step |-> "user", cause |-> "TimeoutError"]
    /\ flow.errors = Some("timeout_connect")

\* C20: the flow shows the credentials form after the user step exactly when
\* the validation there failed with invalid authentication; a failed
\* validation of the credentials step shows the credentials form again with
\* invalid_auth, cannot_connect or unknown; the flow leaves the credentials
\* step only for the macs step and only after a validation that succeeded; no
\* entry is created by either step.
C20_CredentialsUntilValidated ==
    [][ /\ StepOf("user")
          => /\ flow'.step_id = "credentials" <=> flow'.last.cause = "InvalidAuthError"
             /\ flow'.created = None
        /\ StepOf("credentials")
          => /\ flow'.last.cause # "ok"
                  => /\ flow'.type = "form" /\ flow'.step_id = "credentials"
                     /\ flow'.errors \in {Some("invalid_auth"), Some("cannot_connect"), Some("unknown")}
             /\ flow'.step_id # "credentials"
                  => flow'.step_id = "macs" /\ flow'.last.cause = "ok" /\ flow'.errors = None
             /\ flow'.created = None
        /\ flow'.step_id = "credentials" => flow.step_id \in {"user", "credentials"} ]_vars

\* C20 happens: an access key met invalid authentication, and the credentials
\* step has handed over to the macs step after a validation that succeeded
C20_Witness ==
    /\ flow.type = "form" /\ flow.step_id = "macs"
    /\ flow.last = [step |-> "credentials", cause |-> "ok"]
    /\ flow._access_key # ""
    /\ flow._username # None

\* the MAC addresses among the addresses submitted: six pairs of hex digits
\* joined by colons, by dashes or by nothing
MacAddresses == {"aa:bb:cc:dd:ee:ff", "aa-bb-cc-dd-ee-ff", "AA-BB-CC-DD-EE-FF", "aabbccddeeff"}

AllMacAddresses(macs) == \A i \in 1..Len(macs) : macs[i] \in MacAddresses

\* the form that was just submitted
Submitted == Val(flow'.submitted)

\* C21: in the macs step of the config flow and of the options flow, with
\* wake-on-LAN requested, an empty list of addresses shows the step again with
\* no_mac_addresses, a list with an invalid address shows it again with
\* invalid_mac, and the flow leaves the step only when the list is non-empty
\* and every address is a MAC address.
C21_WolNeedsValidMacs ==
    [][ StepOf("macs") /\ Submitted.use_wol
        => /\ Submitted.mac = <<>>
                => flow'.step_id = "macs" /\ flow'.errors = Some("no_mac_addresses")
           /\ Submitted.mac # <<>> /\ ~AllMacAddresses(Submitted.mac)
                => flow'.step_id = "macs" /\ flow'.errors = Some("invalid_mac")
           /\ flow'.step_id # "macs"
                => Submitted.mac # <<>> /\ AllMacAddresses(Submitted.mac) ]_vars

\* C21 happens: the options flow shows the macs step again for an invalid address
C21_Witness ==
    /\ flow.handler = "options" /\ flow.type = "form" /\ flow.step_id = "macs"
    /\ flow.errors = Some("invalid_mac")
    /\ Val(flow.submitted).use_wol

\* C22: with wake-on-LAN not requested the macs step goes on without an error
\* whatever addresses were submitted, and the addresses it stores are none.
C22_NoWolStoresNoMacs ==
    [][ StepOf("macs") /\ ~Submitted.use_wol
        => /\ flow'.step_id # "macs"
           /\ flow'.errors \in {None, Some("invalid_access_key"), Some("invalid_auth"), Some("cannot_connect"), Some("timeout_connect"), Some("unknown")}
           /\ flow'._mac_addresses = <<>> ]_vars

\* the server of the flow can supply its browse rules
SuppliesBrowseRules == VersionGE(VersionSections(flow.server_version), VersionSections("32.0.6"))

\* C23: the browse-paths step is shown only for a server that cannot supply
\* browse rules: the config flow goes from macs to paths for a 31.x server and
\* from macs straight to the zones or the playback fields for 32.0.6 or later;
\* the options flow starts at init for a 31.x server and at macs otherwise.
C23_PathsStepOnlyBelowCapability ==
    [][ /\ flow.handler = "config" /\ StepOf("macs") /\ flow'.step_id # "macs"
          => IF SuppliesBrowseRules
             THEN flow'.step_id \in {"zones", "select_playback_fields"}
             ELSE flow'.step_id = "paths"
        /\ flow.handler = "options" /\ flow.last.step = ""
          => flow.step_id = IF SuppliesBrowseRules THEN "macs" ELSE "init" ]_vars

\* the step that asks for the browse paths is on display and is submitted
PathsStep ==
    \/ flow.handler = "config" /\ StepOf("paths")
    \/ flow.handler = "options" /\ StepOf("init")

C26_EntryCreatedAfterPlaybackFields ==
    [][ /\ flow.handler = "config" /\ StepOf("select_zones")
          => /\ Submitted.device_zones = <<>>
                  => /\ flow'.type = "form" /\ flow'.step_id = "select_zones"
                     /\ flow'.errors = Some("no_zones")
             /\ Submitted.device_zones # <<>>
                  => flow'.type = "form" /\ flow'.step_id = "select_playback_fields"
        /\ flow.handler = "config" /\ flow.created = None /\ flow'.created # None
          => flow.step_id = "select_playback_fields" ]_vars

----------------------------------------------------------------------------
(* Properties of validate_http *)

\* what trying the resolved addresses in list order comes to, from the i-th
\* on: the first address that connects, the flow error of the first address
\* that answers with an authentication, request or server error, with the
\* addresses that cannot be connected to skipped; "open" where the addresses
\* run out or one of them fails in another way
RECURSIVE InListOrder(_, _, _)
InListOrder(server_info, i, connect) ==
    IF i > Len(server_info.local_ip_list) THEN [kind |-> "open"]
    ELSE LET ip == server_info.local_ip_list[i]
             outcome == connect[ip]
         IN  CASE outcome = "ok" -> [kind |-> "connected", value |-> <<MediaServer(ip), server_info.mac_address_list>>]
               [] outcome = "CannotConnectError" -> InListOrder(server_info, i + 1, connect)
               [] outcome = "InvalidAuthError" -> [kind |-> "error", error |-> "InvalidAuth"]
               [] outcome = "InvalidRequestError" -> [kind |-> "error", error |-> "InvalidRequest"]
               [] outcome = "MediaServerError" -> [kind |-> "error", error |-> "InternalError"]
               [] OTHER -> [kind |-> "open"]

\* C27: validate_http tries the addresses an access key resolves to in list
\* order: an address that cannot be connected to is skipped, the first that
\* connects is returned with the resolved MAC addresses, an authentication,
\* request or server error ends the attempt with the flow error for it; an
\* access key that does not resolve raises InvalidAccessKey and no host is
\* contacted.
C27_AddressesTriedInOrder ==
    validation # None /\ Val(validation).data.api_key # ""
    => LET v == Val(validation)
           expected == InListOrder(Val(v.server.resolution), 1, v.server.connect)
       IN  IF IsNone(v.server.resolution)
           THEN ~v.result.ok /\ v.result.error = "InvalidAccessKey" /\ v.contacted = <<>>
           ELSE \/ expected.kind = "open"
                \/ expected.kind = "error" /\ ~v.result.ok /\ v.result.error = expected.error
                \/ expected.kind = "connected" /\ v.result.ok /\ v.result.value = expected.value

\* a cycle that follows a cycle whose get_browse_rules call raised, on the
\* server version that cycle saw, and that gets as far as the browse paths
AfterFailedRefetch ==
    /\ last_cycle.outcome = "failed"
    /\ last_cycle.stage = "browse_rules"
    /\ media_server_info' = media_server_info
    /\ ReachesPaths
    /\ CanRefreshPaths(media_server_info')

\* C28: the cycle after a failed fetch of the browse rules fetches them again;
\* it does not publish the cached paths without asking.
C28_FailedRefetchRetried ==
    [][ AfterFailedRefetch => last_cycle'.browse_rules ]_vars

----------------------------------------------------------------------------
(* Properties of async_play_media *)

\* the names of the media server calls of the last call, in order
CallNames == [i \in 1..Len(Val(call_log).calls) |-> Val(call_log).calls[i].name]

\* the last call was async_play_media with a library item: a library media
\* type, or an id with one of the two prefixes under a type that is not
\* playlist or file
PlayedItem ==
    /\ ~IsNone(call_log)
    /\ Val(call_log).command.method = "async_play_media"
    /\ ~IsMediaSourceId(Val(call_log).media_id)
    /\ LET t == Lower(Val(call_log).media_type)
           id == Val(call_log).media_id
       IN  \/ t \in LibraryMediaTypes
           \/ /\ t \notin {"playlist", "file"}
              /\ HasPrefix(id, "N") \/ HasPrefix(id, "K")

\* C29: for an id with the N| or the K| prefix the play call is issued only
\* after the clear-playlist call returned, never after it raised; for a library
\* media type and an id with neither prefix ValueError leaves the method and no
\* media server call is issued.
C29_PlayOnlyAfterCleared ==
    PlayedItem =>
        LET call == Val(call_log)
            prefixed == HasPrefix(call.media_id, "N") \/ HasPrefix(call.media_id, "K")
        IN  /\ prefixed =>
                  /\ CallNames # <<>> /\ CallNames[1] = "clear_playlist"
                  /\ Len(CallNames) > 1 => call.reply.clear_playlist = "ok"
            /\ ~prefixed => call.calls = <<>> /\ call.escaped = Some("ValueError")

----------------------------------------------------------------------------
(* Properties of the root browse *)

\* the nodes media_source.async_browse_media contributes: the children of the
\* overview, the one source itself, none when it raises BrowseError
MediaSourceNodes(source) ==
    CASE source = "overview" ->
            << BrowseMedia("Local Media", "APP", "app", <<"media-source", "media_source">>,
                           FALSE, TRUE, <<>>),
               BrowseMedia("Radio Browser", "APP", "app", <<"media-source", "radio_browser">>,
                           FALSE, TRUE, <<>>) >>
      [] source = "source" ->
            << BrowseMedia("source", "APP", "app", <<"media-source">>, FALSE, TRUE, <<>>) >>
      [] OTHER -> <<>>

IsMediaSourceNode(node) ==
    node.media_content_id # <<>> /\ node.media_content_id[1] = "media-source"

\* C30: the card of a root browse lists the media server's nodes and after
\* them the media-source nodes, the children of the overview or the single
\* source; the card of a child browse lists no media-source node, and its
\* count is the number of its children.
C30_RootListsMediaSources ==
    (browse # None /\ IsNone(Browsed.result.raised)) =>
        LET listed == Browsed.result.library_info.children
            own == SelectSeq(listed, LAMBDA node : ~IsMediaSourceNode(node))
        IN  /\ Browsed.result.count = Len(own)
            /\ IF Browsed.request.parent_id = "-1"
               THEN listed = own \o MediaSourceNodes(Browsed.request.media_source)
               ELSE listed = own

====
